---- MODULE Spec2Model ----
(***************************************************************************)
(* The staged assessment pipelines of the repository: the evaluate ->      *)
(* reflect -> reassess graph of self_reflection.py and the linear          *)
(* ControlEffectivenessAgent workflows of eff_v4.py, effectivenessv3.py,   *)
(* effv2.py and effect_v5.py.  One behaviour is one run of one script:     *)
(* program says which, node is the graph node about to run, state is the   *)
(* context handed from node to node.  The completion service is an         *)
(* opaque collaborator: each call either raises or returns a text, chosen  *)
(* nondeterministically from a bounded set.                                *)
(***************************************************************************)
EXTENDS Integers, Sequences, FiniteSets, TLC

VARIABLES
    program,        \* which script runs
    node,           \* the graph node about to run, or "END" / "RAISED"
    state,          \* the context passed between the nodes
    session_state,  \* st.session_state of self_reflection.py (progress, status_message)
    self,           \* the agent's instance attributes (control_metrics, assessment_results, ...)
    trace,          \* history: one entry per executed stage, in order
    calls           \* history: one entry per completion call issued, in order

vars == <<program, node, state, session_state, self, trace, calls>>

----------------------------------------------------------------------------
(* Bounds of the model.                                                    *)

\* scores the completion service may put in a response: 0..MaxScore
\* (the prompts ask for 1..5; 0 and 6 are the out-of-range neighbours)
MaxScore == 6

Scores == 0..MaxScore

----------------------------------------------------------------------------
(* Python values.  Optional[T] is a sequence of length <= 1, so that None  *)
(* and "" are different values and a slot always has one TLA+ type.        *)

None == <<>>
Some(v) == <<v>>

\* Python truthiness of an Optional[str]: if state.error:
Truthy(o) == o # None /\ o[1] # ""

\* the keys of dict d other than those in K
Without(d, K) == [k \in (DOMAIN d) \ K |-> d[k]]

\* dict d with d[k] = v (key added or overwritten)
Put(d, k, v) == [x \in (DOMAIN d) \cup {k} |-> IF x = k THEN v ELSE d[x]]

Last(s) == s[Len(s)]

----------------------------------------------------------------------------
(* The completion service and the text it returns.                         *)
(* A text is a sequence of tokens: the opening fence of a json code block, *)
(* the closing fence, prose, or the serialisation of one JSON value.       *)

FenceOpen == [t |-> "fence_json"]
FenceClose == [t |-> "fence"]
Prose == [t |-> "prose"]
\* the serialisation of v as one token, when it holds no three backticks
Json(v) == [t |-> "json", v |-> v]

\* a JSON string whose text quotes a code fence (three backticks)
QuotedFence == "wrap the evidence in a code fence"

\* whether a string of the JSON object v holds three backticks; in the
\* model only a final_assessment may
quotes_fence(v) ==
    IF "final_assessment" \in DOMAIN v THEN v.final_assessment = QuotedFence ELSE FALSE

\* json.dumps(v): one token, or, when a string of v holds three backticks,
\* the text up to them, the backticks, and the text after them
json_dumps(v) ==
    IF quotes_fence(v)
    THEN <<[t |-> "json_head", v |-> v], FenceClose, [t |-> "json_tail", v |-> v]>>
    ELSE <<Json(v)>>

\* a token in which the three backticks of the pattern's closing fence match
IsFence(tok) == tok.t \in {"fence_json", "fence"}

\* re.search(<fence>json\s*(.*?)\s*<fence>, content, re.DOTALL): the leftmost
\* opening fence that has some fence after it, up to the nearest such fence
\* (the lazy group); None when there is no match
re_search(content) ==
    LET opens == {i \in 1..Len(content) :
                    /\ content[i].t = "fence_json"
                    /\ \E j \in (i+1)..Len(content) : IsFence(content[j])}
    IN IF opens = {} THEN None
       ELSE LET i == CHOOSE x \in opens : \A y \in opens : x <= y
                j == CHOOSE x \in (i+1)..Len(content) :
                        /\ IsFence(content[x])
                        /\ \A y \in (i+1)..Len(content) : IsFence(content[y]) => x <= y
            IN Some(SubSeq(content, i + 1, j - 1))

\* lines 89-93: json_str is group(1) of the match, else the whole content
json_str_of(content) ==
    LET json_match == re_search(content)
    IN IF json_match # None THEN json_match[1] ELSE content

JSONDecodeErrorMsg == "Expecting value: line 1 column 1 (char 0)"

\* json.loads(s): the value when s is exactly one serialised JSON value,
\* JSONDecodeError otherwise (prose, nothing, extra data around the value,
\* or a value cut off inside one of its strings)
json_loads(s) ==
    IF Len(s) = 1 /\ s[1].t = "json"
    THEN [ok |-> TRUE, value |-> s[1].v]
    ELSE IF Len(s) = 3 /\ s[1].t = "json_head" /\ s[2] = FenceClose /\ s[3].t = "json_tail"
    THEN IF s[1].v = s[3].v THEN [ok |-> TRUE, value |-> s[1].v]
         ELSE [ok |-> FALSE, msg |-> JSONDecodeErrorMsg]
    ELSE IF Len(s) >= 1 /\ s[1].t = "json_head"
    THEN [ok |-> FALSE, msg |-> "Unterminated string starting at: line 1 column 2 (char 1)"]
    ELSE [ok |-> FALSE, msg |-> JSONDecodeErrorMsg]

\* str(KeyError(k))
KeyErrorMsg(k) == "'" \o k \o "'"

\* str(e) of a failed completion call: the service is opaque, its exception
\* may carry a message or none at all (e.g. TimeoutError())
ServiceErrorMsgs == {"", "Request timed out."}

Raise(msg) == [kind |-> "raise", msg |-> msg]
Content(text) == [kind |-> "content", content |-> text]

\* the shapes in which the service may return the JSON value p
TextsOf(p) ==
    { json_dumps(p),
      <<Prose, FenceOpen>> \o json_dumps(p) \o <<FenceClose, Prose>> }

\* texts that hold no parsable JSON: prose only, a fence around prose, an
\* empty text
NonJsonTexts ==
    { <<Prose>>,
      <<FenceOpen, Prose, FenceClose>>,
      <<>> }

\* every outcome of chain.invoke for a stage expecting a value of Payloads
Responses(Payloads) ==
    {Raise(m) : m \in ServiceErrorMsgs}
    \cup {Content(x) : x \in NonJsonTexts}
    \cup {Content(x) : x \in UNION {TextsOf(p) : p \in Payloads}}

----------------------------------------------------------------------------
(* self_reflection.py: the evaluate -> reflect -> reassess graph.          *)

\* class State(BaseModel) with its defaults, input_text given
State(input_text) ==
    [ assessment_learned |-> None,
      error |-> None,
      input_text |-> input_text,
      rating |-> None,
      rationale |-> None,
      metrics_evaluation |-> None,
      status |-> "initialized",
      reflection |-> None,
      final_assessment |-> None,
      final_rating |-> None ]

\* the control descriptions typed into the text area (non-empty, line 409)
InputTexts == {"Access reviews are performed quarterly by IT.", "Backups are tested."}

\* the five metrics the evaluation prompt asks for (lines 32-36)
MetricNames == {"clarity", "appropriateness", "efficiency", "measurability", "sustainability"}

\* one metric of a response: {"score": s, "rationale": "..."}
MetricEntry(s) == [score |-> s, rationale |-> "because"]

\* a response that grades the five metrics differently
Graded ==
    [k \in MetricNames |->
        MetricEntry(CASE k = "clarity" -> 1 [] k = "appropriateness" -> 2
                      [] k = "efficiency" -> 3 [] k = "measurability" -> 4
                      [] OTHER -> 5)]

\* the "metrics" objects a response may carry: the five prompted metrics with
\* one score, graded scores, a single metric, no metric, and entries lacking
\* "score" or "rationale"
MetricsChoices ==
    {[k \in MetricNames |-> MetricEntry(s)] : s \in Scores}
    \cup {Graded}
    \cup {[k \in {"clarity"} |-> MetricEntry(s)] : s \in {1, MaxScore}}
    \cup {[k \in {} |-> MetricEntry(1)]}
    \cup {[Graded EXCEPT !["clarity"] = [rationale |-> "because"]],
          [Graded EXCEPT !["sustainability"] = [score |-> 5]]}

\* JSON objects the evaluation call may return: well-formed ones, and ones
\* lacking one of the expected keys
EvaluateResults ==
    LET full == {[metrics |-> m, overall_score |-> s, overall_assessment |-> "adequate"] :
                    m \in MetricsChoices, s \in Scores}
        partial == {Without(r, K) : r \in {[metrics |-> Graded, overall_score |-> 4,
                                             overall_assessment |-> "adequate"]},
                                    K \in {{"metrics"}, {"overall_score"}, {"overall_assessment"},
                                           {"metrics", "overall_score", "overall_assessment"}}}
    IN full \cup partial

\* JSON objects the reflection call may return
ReflectResults ==
    LET full == {[feedback_points |-> f, perspective_changes |-> "consider cost",
                  reflection_summary |-> "mostly sound"] :
                    f \in {<<"no owner named">>, <<"no owner named", "no evidence kept">>}}
        partial == {Without(r, K) : r \in {[feedback_points |-> <<"no owner named">>,
                                             perspective_changes |-> "consider cost",
                                             reflection_summary |-> "mostly sound"]},
                                    K \in {{"feedback_points"}, {"perspective_changes"},
                                           {"reflection_summary"}}}
    IN full \cup partial

\* JSON objects the reassessment call may return
ReassessResults ==
    LET full == {[final_score |-> s, final_assessment |-> "adequate after review"] : s \in Scores}
                \cup {[final_score |-> 3, final_assessment |-> QuotedFence]}
        partial == {Without(r, K) : r \in {[final_score |-> 3,
                                             final_assessment |-> "adequate after review"]},
                                    K \in {{"final_score"}, {"final_assessment"}}}
    IN full \cup partial

\* the except clause of every stage: state.error = str(e); state.status = "error"
except_handler(st, msg) == [st EXCEPT !.error = Some(msg), !.status = "error"]

\* lines 86-95, 166-180, 236-250: the completion call, the fence search and
\* json.loads; [ok, result] or [ok = FALSE, msg = str(e)]
invoke_and_parse(response) ==
    IF response.kind = "raise" THEN [ok |-> FALSE, msg |-> response.msg]
    ELSE LET parsed == json_loads(json_str_of(response.content))
         IN IF parsed.ok THEN [ok |-> TRUE, result |-> parsed.value]
            ELSE [ok |-> FALSE, msg |-> parsed.msg]

\* a faulty variant of metric_scores: the sustainability metric is left out
metric_scores_partial(metrics) ==
    [metric \in (DOMAIN metrics) \ {"sustainability"} |-> metrics[metric].score]

\* lines 98-100: the score of each metric of the response
metric_scores(metrics) == [metric \in DOMAIN metrics |-> metrics[metric].score]

\* evaluate_effectiveness, lines 29-116: the slots are assigned one by one,
\* so a KeyError leaves the ones before it written
evaluate_effectiveness(st, response) ==
    LET got == invoke_and_parse(response)
    IN IF ~got.ok THEN except_handler(st, got.msg)
       ELSE LET result == got.result IN
       IF "metrics" \notin DOMAIN result THEN except_handler(st, KeyErrorMsg("metrics"))
       ELSE IF \E k \in DOMAIN result.metrics : "score" \notin DOMAIN result.metrics[k]
            THEN except_handler(st, KeyErrorMsg("score"))
       ELSE LET s1 == [st EXCEPT !.metrics_evaluation = Some(metric_scores(result.metrics))] IN
       IF "overall_score" \notin DOMAIN result THEN except_handler(s1, KeyErrorMsg("overall_score"))
       ELSE LET s2 == [s1 EXCEPT !.rating = Some(result.overall_score)] IN
       IF "overall_assessment" \notin DOMAIN result
       THEN except_handler(s2, KeyErrorMsg("overall_assessment"))
       ELSE LET s3 == [s2 EXCEPT !.assessment_learned = Some(result.overall_assessment)] IN
       IF \E k \in DOMAIN result.metrics : "rationale" \notin DOMAIN result.metrics[k]
       THEN except_handler(s3, KeyErrorMsg("rationale"))
       ELSE [s3 EXCEPT !.rationale = Some([k \in DOMAIN result.metrics |-> result.metrics[k].rationale]),
                       !.status = "evaluated"]

\* a faulty variant of self_reflection: the summary is also stored in
\* assessment_learned
self_reflection_rewrites(st, response) ==
    LET got == invoke_and_parse(response)
    IN IF ~got.ok THEN except_handler(st, got.msg)
       ELSE LET result == got.result IN
       IF "reflection_summary" \notin DOMAIN result
       THEN except_handler(st, KeyErrorMsg("reflection_summary"))
       ELSE LET s1 == [st EXCEPT !.reflection =
                          Some([reflection_summary |-> result.reflection_summary]),
                                 !.assessment_learned = Some(result.reflection_summary)] IN
       IF "feedback_points" \notin DOMAIN result
       THEN except_handler(s1, KeyErrorMsg("feedback_points"))
       ELSE IF "perspective_changes" \notin DOMAIN result
       THEN except_handler(s1, KeyErrorMsg("perspective_changes"))
       ELSE [s1 EXCEPT !.reflection =
                          Some([reflection_summary |-> result.reflection_summary,
                                feedback_points |-> result.feedback_points,
                                perspective_changes |-> result.perspective_changes]),
                       !.status = "reflected"]

\* self_reflection, lines 123-196: reflection is first set to the summary
\* alone (line 183), then to the formatted text (line 185)
self_reflection(st, response) ==
    LET got == invoke_and_parse(response)
    IN IF ~got.ok THEN except_handler(st, got.msg)
       ELSE LET result == got.result IN
       IF "reflection_summary" \notin DOMAIN result
       THEN except_handler(st, KeyErrorMsg("reflection_summary"))
       ELSE LET s1 == [st EXCEPT !.reflection =
                          Some([reflection_summary |-> result.reflection_summary])] IN
       IF "feedback_points" \notin DOMAIN result
       THEN except_handler(s1, KeyErrorMsg("feedback_points"))
       ELSE IF "perspective_changes" \notin DOMAIN result
       THEN except_handler(s1, KeyErrorMsg("perspective_changes"))
       ELSE [s1 EXCEPT !.reflection =
                          Some([reflection_summary |-> result.reflection_summary,
                                feedback_points |-> result.feedback_points,
                                perspective_changes |-> result.perspective_changes]),
                       !.status = "reflected"]

\* a faulty variant of reassess: the final score is also stored in rating
reassess_overwrites_rating(st, response) ==
    LET got == invoke_and_parse(response)
    IN IF ~got.ok THEN except_handler(st, got.msg)
       ELSE LET result == got.result IN
       IF "final_score" \notin DOMAIN result THEN except_handler(st, KeyErrorMsg("final_score"))
       ELSE LET s1 == [st EXCEPT !.final_rating = Some(result.final_score),
                                 !.rating = Some(result.final_score)] IN
       IF "final_assessment" \notin DOMAIN result
       THEN except_handler(s1, KeyErrorMsg("final_assessment"))
       ELSE [s1 EXCEPT !.final_assessment = Some(result.final_assessment),
                       !.status = "completed"]

\* reassess, lines 203-265
reassess(st, response) ==
    LET got == invoke_and_parse(response)
    IN IF ~got.ok THEN except_handler(st, got.msg)
       ELSE LET result == got.result IN
       IF "final_score" \notin DOMAIN result THEN except_handler(st, KeyErrorMsg("final_score"))
       ELSE LET s1 == [st EXCEPT !.final_rating = Some(result.final_score)] IN
       IF "final_assessment" \notin DOMAIN result
       THEN except_handler(s1, KeyErrorMsg("final_assessment"))
       ELSE [s1 EXCEPT !.final_assessment = Some(result.final_assessment),
                       !.status = "completed"]

\* a faulty variant of decide_after_reflection: the two routes are swapped
decide_after_reflection_swapped(st) == IF Truthy(st.error) THEN "reassess" ELSE "error"

\* the conditional edges, lines 268-281
decide_after_evaluation(st) == IF Truthy(st.error) THEN "error" ELSE "reflect"
decide_after_reflection(st) == IF Truthy(st.error) THEN "error" ELSE "reassess"
decide_after_reassessment(st) == IF Truthy(st.error) THEN "error" ELSE "complete"

\* a faulty variant of EdgeTarget: the "reflect" route leads to reassess
EdgeTarget_skips_reflect(route) ==
    CASE route = "reflect" -> "reassess"
      [] route = "reassess" -> "reassess"
      [] OTHER -> "END"

\* the edge maps of create_graph, lines 293-318
EdgeTarget(route) ==
    CASE route = "reflect" -> "reflect"
      [] route = "reassess" -> "reassess"
      [] OTHER -> "END"

\* the scripts other than self_reflection.py keep no Streamlit session
NoSession == [progress |-> 0, status_message |-> <<>>]

\* what a stage leaves in st.session_state: progress and status_message
\* (lines 26-27, 82-83, 108-114 and their like); the handler ran exactly
\* when the returned status is "error"
session_after(stage, new) ==
    IF new.status = "error"
    THEN [progress |-> CASE stage = "evaluate" -> 35 [] stage = "reflect" -> 65 [] OTHER -> 90,
          status_message |->
              <<CASE stage = "evaluate" -> "Error: "
                  [] stage = "reflect" -> "Error during reflection: "
                  [] OTHER -> "Error during reassessment: ",
                new.error[1]>>]
    ELSE [progress |-> CASE stage = "evaluate" -> 50 [] stage = "reflect" -> 80 [] OTHER -> 100,
          status_message |->
              <<CASE stage = "evaluate" -> "Initial assessment complete. Starting self-reflection..."
                  [] stage = "reflect" -> "Self-reflection complete. Finalizing assessment..."
                  [] OTHER -> "Assessment completed successfully!">>]

\* the record of one stage execution
StageRun(stage, pre, post, response) ==
    [ stage |-> stage,
      failed |-> post.status = "error",
      pre |-> pre,
      post |-> post,
      response |-> response,
      result |-> LET got == invoke_and_parse(response)
                 IN IF got.ok THEN Some(got.result) ELSE None ]

\* one node of the compiled graph running: the stage function on the current
\* state with one completion call
RunStage(stage, new, response, next) ==
    /\ state' = new
    /\ session_state' = session_after(stage, new)
    /\ trace' = Append(trace, StageRun(stage, state, new, response))
    /\ calls' = Append(calls, [stage |-> stage, ok |-> response.kind = "content",
                               after_error |-> state.error # None])
    /\ node' = next
    /\ UNCHANGED <<program, self>>

SR_evaluate ==
    /\ program = "self_reflection" /\ node = "evaluate"
    /\ \E response \in Responses(EvaluateResults) :
          RunStage("evaluate", evaluate_effectiveness(state, response), response,
                   "decide_after_evaluation")

SR_reflect ==
    /\ program = "self_reflection" /\ node = "reflect"
    /\ \E response \in Responses(ReflectResults) :
          RunStage("reflect", self_reflection(state, response), response,
                   "decide_after_reflection")

SR_reassess ==
    /\ program = "self_reflection" /\ node = "reassess"
    /\ \E response \in Responses(ReassessResults) :
          RunStage("reassess", reassess(state, response), response,
                   "decide_after_reassessment")

SR_decide_after_evaluation ==
    /\ program = "self_reflection" /\ node = "decide_after_evaluation"
    /\ node' = EdgeTarget(decide_after_evaluation(state))
    /\ UNCHANGED <<program, state, session_state, self, trace, calls>>

SR_decide_after_reflection ==
    /\ program = "self_reflection" /\ node = "decide_after_reflection"
    /\ node' = EdgeTarget(decide_after_reflection(state))
    /\ UNCHANGED <<program, state, session_state, self, trace, calls>>

SR_decide_after_reassessment ==
    /\ program = "self_reflection" /\ node = "decide_after_reassessment"
    /\ node' = EdgeTarget(decide_after_reassessment(state))
    /\ UNCHANGED <<program, state, session_state, self, trace, calls>>

\* main, lines 422-437: progress 10 + 3 * 3, then graph.invoke(State(input_text))
SR_Init ==
    /\ program = "self_reflection"
    /\ node = "evaluate"
    /\ state \in {State(t) : t \in InputTexts}
    /\ session_state = [progress |-> 19, status_message |-> <<"Starting evaluation...">>]
    /\ self = <<>>
    /\ trace = <<>>
    /\ calls = <<>>

----------------------------------------------------------------------------
(* Values of the dict-based workflows.  A slot that may hold values of     *)
(* several Python types holds a tagged record, one tag per type.           *)

PyNone == [none |-> TRUE]
PyInt(n) == [int |-> n]
PyStr(x) == [str |-> x]
\* the string "<n>%"
Pct(n) == [pct |-> n]
PyList(x) == [list |-> x]
PyDict(d) == [dict |-> d]
\* a str holding the text x (a sequence of tokens)
Text(x) == [text |-> x]

EmptyDict == [k \in {} |-> PyNone]

\* d.get(k, default)
Get(d, k, default) == IF k \in DOMAIN d THEN d[k] ELSE default

\* state.get(k) is falsy: absent, None, "", [] or {}
Falsy(d, k) ==
    IF k \in DOMAIN d
    THEN d[k] \in {PyNone, PyStr(""), PyList(<<>>), PyDict(EmptyDict), Text(<<>>)}
    ELSE TRUE

\* state["error"] = msg
SetError(d, msg) == Put(d, "error", PyStr(msg))

HasError(d) == "error" \in DOMAIN d

\* int(v): an int, or ValueError for a str that is no number
py_int(v) ==
    IF "int" \in DOMAIN v THEN [ok |-> TRUE, v |-> v.int]
    ELSE [ok |-> FALSE, msg |-> "invalid literal for int() with base 10"]

\* float(v.replace("%", "")): the number of "<n>%", ValueError for another
\* str, AttributeError for a value that is no str
py_float_pct(v) ==
    IF "pct" \in DOMAIN v THEN [ok |-> TRUE, v |-> v.pct]
    ELSE IF "str" \in DOMAIN v THEN [ok |-> FALSE, msg |-> "could not convert string to float"]
    ELSE [ok |-> FALSE, msg |-> "'int' object has no attribute 'replace'"]

\* next((item[key] for item in parsed_data if key in item), None)
FirstWith(parsed_data, key) ==
    LET has == {i \in 1..Len(parsed_data) : key \in DOMAIN parsed_data[i]}
    IN IF has = {} THEN None
       ELSE Some(parsed_data[CHOOSE i \in has : \A j \in has : i <= j][key])

\* the number of completion calls a stage issued, and how each ended
CallsOf(stage, oks, st) ==
    [i \in 1..Len(oks) |-> [stage |-> stage, ok |-> oks[i], after_error |-> HasError(st)]]

\* the record of one stage execution of a dict-based workflow
DictStageRun(stage, pre, post, ncalls) ==
    [ stage |-> stage,
      pre |-> pre,
      post |-> post,
      set_error |-> IF HasError(post) /\ HasError(pre) THEN post["error"] # pre["error"]
                    ELSE HasError(post),
      ncalls |-> ncalls ]

----------------------------------------------------------------------------
(* eff_v4.py: parse_input_data -> extract_test_metrics ->                  *)
(* identify_patterns -> evaluate_control_effectiveness ->                  *)
(* generate_assessment_report, joined by unconditional edges.              *)

\* class ControlMetrics, lines 12-22, with its defaults
V4_ControlMetrics ==
    [ total_tests |-> 0, passed_tests |-> 0, failed_tests |-> 0,
      countries_with_failures |-> <<>>,
      sample_ratio_average |-> 0, sample_ratio_deviation |-> 0,
      high_deviation_countries |-> {}, low_deviation_countries |-> {},
      defect_patterns |-> {} ]

\* the deviation thresholds of lines 181 and 183
HighDeviation == 50
LowDeviation == 10

\* largest test count in an input summary
MaxTests == 2

\* "Total Tests" values of an input: counts, and a str that is no number
TestCounts == {PyInt(n) : n \in 0..MaxTests} \cup {PyStr("many")}

\* a "Summary for Passed Tests" carrying t as its "Total Tests"
V4_PassedSummary(t) ==
    "Key Observations" :>
        ("Total Tests" :> t @@ "Sample Ratio Average" :> Pct(34)
         @@ "Sample Ratio Standard Deviation" :> Pct(28))
    @@ "Potential Patterns or Anomalies" :>
        ("Min Deviation" :> Pct(5) @@ "Max Deviation" :> Pct(100)
         @@ "By Country" :> PyDict("CHINA" :> Pct(100) @@ "INDIA" :> Pct(15) @@ "KENYA" :> Pct(5)))
    @@ "Recommendations for Further Analysis" :> PyList(<<"Investigate the high deviation">>)

\* a "Summary for Failed Tests" carrying t as its "Total Tests Conducted" and
\* recs as its recommendations (a dict in the sample data, a list elsewhere)
V4_FailedSummary(t, recs) ==
    "Key Observations" :>
        ("Total Tests Conducted" :> t @@ "Countries Impacted" :> PyList(<<"SINGAPORE", "HONG KONG">>))
    @@ "Potential Patterns or Anomalies" :>
        ("Test Mode Issues" :> PyStr("rules in test mode") @@ "Defect Count" :> PyInt(10))
    @@ "Recommendations for Further Analysis" :> recs

V4_Recommendations ==
    { PyDict("Test Mode Protocols" :> PyStr("Review protocols")),
      PyList(<<"Review protocols">>) }

\* the lists of summaries a caller may pass: none, passed only, failed only,
\* both, a summary without observations, an item that is no summary
V4_ParsedLists ==
    {<<>>}
    \cup {<<"Summary for Passed Tests" :> V4_PassedSummary(t)>> : t \in TestCounts}
    \cup {<<"Summary for Failed Tests" :> V4_FailedSummary(t, r)>> :
            t \in TestCounts, r \in V4_Recommendations}
    \cup {<<"Summary for Passed Tests" :> V4_PassedSummary(p),
            "Summary for Failed Tests" :> V4_FailedSummary(f, r)>> :
            p \in {PyInt(n) : n \in 0..MaxTests}, f \in {PyInt(n) : n \in 0..MaxTests},
            r \in V4_Recommendations}
    \cup {<<"Summary for Passed Tests" :> ("Source" :> PyStr("tester"))>>,
          <<"Note" :> PyStr("no tests were run")>>}

\* the input_data a caller may pass: nothing, a list, a str holding JSON or
\* prose, a value of another type
V4_Inputs ==
    {PyNone, PyInt(7), Text(<<Prose>>)}
    \cup {PyList(l) : l \in V4_ParsedLists}
    \cup {Text(<<Json(l)>>) : l \in {<<>>, <<"Summary for Passed Tests" :> V4_PassedSummary(PyInt(1))>>}}

\* parse_input_data, lines 113-143
V4_parse_input_data(st) ==
    LET input_data == Get(st, "input_data", PyNone)
    IN IF Falsy(st, "input_data") THEN SetError(st, "Input data not provided")
       ELSE IF "list" \in DOMAIN input_data THEN Put(st, "parsed_data", input_data)
       ELSE IF "text" \in DOMAIN input_data
            THEN LET parsed == json_loads(input_data.text)
                 IN IF parsed.ok THEN Put(st, "parsed_data", PyList(parsed.value))
                    ELSE SetError(st, "Error parsing input data: " \o JSONDecodeErrorMsg)
       ELSE SetError(st, "Unsupported input data type")

\* lines 159-184: the passed-tests summary folded into metrics; [ok, metrics]
\* or [ok = FALSE, msg]
V4_extract_passed(metrics, parsed_data) ==
    LET found == FirstWith(parsed_data, "Summary for Passed Tests")
    IN IF found = None \/ found[1] = EmptyDict THEN [ok |-> TRUE, metrics |-> metrics]
       ELSE LET passed_tests_data == found[1]
                key_observations == Get(passed_tests_data, "Key Observations", EmptyDict)
                total == py_int(Get(key_observations, "Total Tests", PyInt(0)))
                avg == py_float_pct(Get(key_observations, "Sample Ratio Average", Pct(0)))
                dev == py_float_pct(Get(key_observations, "Sample Ratio Standard Deviation", Pct(0)))
                country_data ==
                    Get(Get(passed_tests_data, "Potential Patterns or Anomalies", EmptyDict),
                        "By Country", PyDict(EmptyDict)).dict
                bad == {c \in DOMAIN country_data : ~py_float_pct(country_data[c]).ok}
            IN IF ~total.ok THEN [ok |-> FALSE, msg |-> total.msg]
               ELSE IF ~avg.ok THEN [ok |-> FALSE, msg |-> avg.msg]
               ELSE IF ~dev.ok THEN [ok |-> FALSE, msg |-> dev.msg]
               ELSE IF bad # {}
                    THEN [ok |-> FALSE, msg |-> py_float_pct(country_data[CHOOSE c \in bad : TRUE]).msg]
               ELSE [ok |-> TRUE, metrics |->
                       [metrics EXCEPT
                          !.total_tests = @ + total.v,
                          !.passed_tests = total.v,
                          !.sample_ratio_average = avg.v,
                          !.sample_ratio_deviation = dev.v,
                          !.high_deviation_countries =
                              {[country |-> c, deviation |-> country_data[c].pct] :
                                 c \in {x \in DOMAIN country_data : country_data[x].pct > HighDeviation}},
                          !.low_deviation_countries =
                              {[country |-> c, deviation |-> country_data[c].pct] :
                                 c \in {x \in DOMAIN country_data : country_data[x].pct < LowDeviation}}]]

\* a faulty variant of V4_extract_failed: the failed count replaces the total
\* instead of being added to it
V4_extract_failed_replaces_total(metrics, parsed_data) ==
    LET found == FirstWith(parsed_data, "Summary for Failed Tests")
    IN IF found = None \/ found[1] = EmptyDict THEN [ok |-> TRUE, metrics |-> metrics]
       ELSE LET failed_tests_data == found[1]
                key_observations == Get(failed_tests_data, "Key Observations", EmptyDict)
                failed_tests_count == py_int(Get(key_observations, "Total Tests Conducted", PyInt(0)))
                countries_impacted == Get(key_observations, "Countries Impacted", PyList(<<>>))
                patterns == Get(failed_tests_data, "Potential Patterns or Anomalies", EmptyDict)
            IN IF ~failed_tests_count.ok THEN [ok |-> FALSE, msg |-> failed_tests_count.msg]
               ELSE [ok |-> TRUE, metrics |->
                       [metrics EXCEPT
                          !.total_tests = failed_tests_count.v,
                          !.failed_tests = failed_tests_count.v,
                          !.countries_with_failures = countries_impacted.list,
                          !.defect_patterns =
                              {k \o ": " \o patterns[k].str :
                                 k \in {x \in DOMAIN patterns : "str" \in DOMAIN patterns[x]}}]]

\* lines 187-200: the failed-tests summary folded into metrics
V4_extract_failed(metrics, parsed_data) ==
    LET found == FirstWith(parsed_data, "Summary for Failed Tests")
    IN IF found = None \/ found[1] = EmptyDict THEN [ok |-> TRUE, metrics |-> metrics]
       ELSE LET failed_tests_data == found[1]
                key_observations == Get(failed_tests_data, "Key Observations", EmptyDict)
                failed_tests_count == py_int(Get(key_observations, "Total Tests Conducted", PyInt(0)))
                countries_impacted == Get(key_observations, "Countries Impacted", PyList(<<>>))
                patterns == Get(failed_tests_data, "Potential Patterns or Anomalies", EmptyDict)
            IN IF ~failed_tests_count.ok THEN [ok |-> FALSE, msg |-> failed_tests_count.msg]
               ELSE [ok |-> TRUE, metrics |->
                       [metrics EXCEPT
                          !.total_tests = @ + failed_tests_count.v,
                          !.failed_tests = failed_tests_count.v,
                          !.countries_with_failures = countries_impacted.list,
                          !.defect_patterns =
                              {k \o ": " \o patterns[k].str :
                                 k \in {x \in DOMAIN patterns : "str" \in DOMAIN patterns[x]}}]]

\* extract_test_metrics, lines 145-212: the new state (self.control_metrics
\* is set by the action)
V4_extract_test_metrics(st) ==
    IF Falsy(st, "parsed_data") THEN SetError(st, "No parsed data available for metric extraction")
    ELSE LET parsed_data == st["parsed_data"].list
             passed == V4_extract_passed(V4_ControlMetrics, parsed_data)
         IN IF ~passed.ok THEN SetError(st, "Error extracting test metrics: " \o passed.msg)
            ELSE LET failed == V4_extract_failed(passed.metrics, parsed_data)
                 IN IF ~failed.ok THEN SetError(st, "Error extracting test metrics: " \o failed.msg)
                    ELSE Put(st, "metrics", failed.metrics)

\* lines 230-242: the patterns read from the passed-tests summary
V4_passed_patterns(parsed_data) ==
    LET found == FirstWith(parsed_data, "Summary for Passed Tests")
    IN IF found = None \/ found[1] = EmptyDict THEN {}
       ELSE LET anomalies == Get(found[1], "Potential Patterns or Anomalies", EmptyDict)
                recommendations == Get(found[1], "Recommendations for Further Analysis", PyList(<<>>))
            IN (IF "Min Deviation" \in DOMAIN anomalies /\ "Max Deviation" \in DOMAIN anomalies
                THEN {"Sample ratio deviation ranges from min to max"} ELSE {})
               \cup {"Recommendation: " \o recommendations.list[i] :
                       i \in 1..Len(recommendations.list)}

\* lines 227-256: the patterns of the parsed data; recommendations.items() of
\* the failed summary raises AttributeError when they are a list
V4_find_patterns(parsed_data) ==
    LET found == FirstWith(parsed_data, "Summary for Failed Tests")
    IN IF found = None \/ found[1] = EmptyDict
       THEN [ok |-> TRUE, patterns |-> V4_passed_patterns(parsed_data)]
       ELSE LET anomalies == Get(found[1], "Potential Patterns or Anomalies", EmptyDict)
                recommendations ==
                    Get(found[1], "Recommendations for Further Analysis", PyDict(EmptyDict))
            IN IF "dict" \notin DOMAIN recommendations
               THEN [ok |-> FALSE, msg |-> "'list' object has no attribute 'items'"]
               ELSE [ok |-> TRUE, patterns |->
                       V4_passed_patterns(parsed_data)
                       \cup {k \o ": " \o anomalies[k].str :
                               k \in {x \in DOMAIN anomalies : "str" \in DOMAIN anomalies[x]}}
                       \cup {"Recommendation: " \o recommendations.dict[k].str :
                               k \in {x \in DOMAIN recommendations.dict :
                                        "str" \in DOMAIN recommendations.dict[x]}}]

\* a faulty variant of identify_patterns: its success path drops the error
\* an earlier stage recorded
V4_identify_patterns_resets(st) ==
    IF Falsy(st, "parsed_data") THEN SetError(st, "No parsed data available for pattern identification")
    ELSE LET found == V4_find_patterns(st["parsed_data"].list)
         IN IF found.ok THEN Put(Without(st, {"error"}), "identified_patterns", found.patterns)
            ELSE SetError(st, "Error identifying patterns: " \o found.msg)

\* identify_patterns, lines 214-267
V4_identify_patterns(st) ==
    IF Falsy(st, "parsed_data") THEN SetError(st, "No parsed data available for pattern identification")
    ELSE LET found == V4_find_patterns(st["parsed_data"].list)
         IN IF found.ok THEN Put(st, "identified_patterns", found.patterns)
            ELSE SetError(st, "Error identifying patterns: " \o found.msg)

\* JSON values the extraction call may return: objects with a rating (in or
\* out of 1..5) and a justification, objects lacking a key, and a list
ExtractionResults ==
    {PyDict([rating |-> PyInt(s), justification |-> PyStr("tests mostly pass")]) : s \in Scores}
    \cup {PyDict([rating |-> PyStr("3 - moderate"), justification |-> PyStr("tests mostly pass")]),
          PyDict([justification |-> PyStr("tests mostly pass")]),
          PyDict([rating |-> PyInt(2)]),
          PyList(<<>>)}

\* outcomes of the first completion call: a failure, or an evaluation text
EvaluationResponses == {Raise(m) : m \in ServiceErrorMsgs} \cup {Content(<<Prose>>)}

\* lines 309-348 (effectivenessv3.py lines 290-329): the two completion
\* calls and json.loads of the second response, which is parsed whole (no
\* fence search); .get on a value that is no dict raises AttributeError
evaluate_with_llm(st, evaluation, extraction) ==
    IF evaluation.kind = "raise"
    THEN SetError(st, "Error evaluating control effectiveness: " \o evaluation.msg)
    ELSE IF extraction.kind = "raise"
    THEN SetError(st, "Error evaluating control effectiveness: " \o extraction.msg)
    ELSE LET parsed == json_loads(extraction.content)
         IN IF ~parsed.ok
            THEN SetError(Put(Put(st, "effectiveness_rating", PyStr("no data available")),
                              "effectiveness_justification", Text(evaluation.content)),
                          "Failed to parse effectiveness evaluation result as JSON")
            ELSE IF "dict" \notin DOMAIN parsed.value
            THEN SetError(st, "Error evaluating control effectiveness: 'list' object has no attribute 'get'")
            ELSE Put(Put(st, "effectiveness_rating", Get(parsed.value.dict, "rating", PyNone)),
                     "effectiveness_justification", Get(parsed.value.dict, "justification", PyNone))

\* how many completion calls evaluate_with_llm issued and how each ended
evaluate_call_oks(evaluation, extraction) ==
    IF evaluation.kind = "raise" THEN <<FALSE>>
    ELSE <<TRUE, extraction.kind = "content">>

\* lines 278-282: the early return on missing data
insufficient_data(st) ==
    Put(Put(SetError(st, "Insufficient data for effectiveness evaluation"),
            "effectiveness_rating", PyStr("no data available")),
        "effectiveness_justification", PyStr("Insufficient data to evaluate effectiveness"))

\* evaluate_control_effectiveness, lines 269-350
V4_evaluate_control_effectiveness(st, evaluation, extraction) ==
    IF Falsy(st, "parsed_data") THEN insufficient_data(st)
    ELSE evaluate_with_llm(st, evaluation, extraction)

\* generate_assessment_report, lines 352-367 and the part of the file that is
\* not in the source tree: the report is built from the slots read at lines
\* 357-360 and stored in the state
V4_generate_assessment_report(st) ==
    Put(st, "assessment_report",
        [ effectiveness_rating |-> Get(st, "effectiveness_rating", PyStr("no data available")),
          effectiveness_justification |-> Get(st, "effectiveness_justification", PyStr("")),
          metrics |-> Get(st, "metrics", EmptyDict),
          identified_patterns |-> Get(st, "identified_patterns", {}) ])

\* one node of a dict-based workflow running
RunDictStage(stage, new, oks, next) ==
    /\ state' = new
    /\ trace' = Append(trace, DictStageRun(stage, state, new, Len(oks)))
    /\ calls' = calls \o CallsOf(stage, oks, state)
    /\ node' = next
    /\ UNCHANGED <<program, session_state>>

V4_parse ==
    /\ program = "eff_v4" /\ node = "parse_input_data"
    /\ RunDictStage("parse_input_data", V4_parse_input_data(state), <<>>, "extract_test_metrics")
    /\ UNCHANGED self

V4_extract ==
    /\ program = "eff_v4" /\ node = "extract_test_metrics"
    /\ LET new == V4_extract_test_metrics(state)
       IN /\ RunDictStage("extract_test_metrics", new, <<>>, "identify_patterns")
          /\ self' = IF "metrics" \in DOMAIN new
                     THEN [self EXCEPT !.control_metrics = new["metrics"]] ELSE self

V4_identify ==
    /\ program = "eff_v4" /\ node = "identify_patterns"
    /\ RunDictStage("identify_patterns", V4_identify_patterns(state), <<>>,
                    "evaluate_control_effectiveness")
    /\ UNCHANGED self

V4_evaluate ==
    /\ program = "eff_v4" /\ node = "evaluate_control_effectiveness"
    /\ \/ /\ Falsy(state, "parsed_data")
          /\ RunDictStage("evaluate_control_effectiveness",
                          V4_evaluate_control_effectiveness(state, Raise(""), Raise("")),
                          <<>>, "generate_assessment_report")
       \/ /\ ~Falsy(state, "parsed_data")
          /\ \E evaluation \in EvaluationResponses, extraction \in Responses(ExtractionResults) :
                RunDictStage("evaluate_control_effectiveness",
                             V4_evaluate_control_effectiveness(state, evaluation, extraction),
                             evaluate_call_oks(evaluation, extraction),
                             "generate_assessment_report")
    /\ UNCHANGED self

V4_report ==
    /\ program = "eff_v4" /\ node = "generate_assessment_report"
    /\ RunDictStage("generate_assessment_report", V4_generate_assessment_report(state), <<>>, "END")
    /\ UNCHANGED self

\* __init__, lines 85-87, and the initial state holding the caller's input
V4_Init ==
    /\ program = "eff_v4"
    /\ node = "parse_input_data"
    /\ state \in {[k \in {"input_data"} |-> i] : i \in V4_Inputs}
    /\ session_state = NoSession
    /\ self = [assessment_results |-> EmptyDict, control_metrics |-> V4_ControlMetrics]
    /\ trace = <<>>
    /\ calls = <<>>

----------------------------------------------------------------------------
(* effectivenessv3.py: parse_input_data -> calculate_control_metrics ->    *)
(* evaluate_control_effectiveness -> generate_assessment_report, joined by *)
(* unconditional edges.                                                    *)

\* class ControlMetrics, lines 12-21, as metrics.dict() gives it
V3_ControlMetrics ==
    [ key_controls_total |-> PyInt(0), nonkey_controls_total |-> PyInt(0),
      key_controls_passed |-> PyInt(0), key_controls_failed |-> PyInt(0),
      nonkey_controls_passed |-> PyInt(0), nonkey_controls_failed |-> PyInt(0),
      controls_without_results |-> PyInt(0), data_availability |-> PyStr("complete") ]

\* longest list of controls in an input
MaxControls == 2

\* one control of the input: isKey and testResult are optional keys
V3_Controls ==
    LET keys == {EmptyDict, "isKey" :> TRUE, "isKey" :> FALSE}
        results == {EmptyDict}
                   \cup {"testResult" :> PyStr(r) : r \in {"Passed", "passed", "Failed"}}
    IN {k @@ r : k \in keys, r \in results}

\* a control whose testResult is null: tested, no result recorded yet
V3_NullResultControl == "isKey" :> TRUE @@ "testResult" :> PyNone

V3_ControlLists == UNION {[1..n -> V3_Controls] : n \in 0..MaxControls}

V3_RiskLists == {<<>>, <<"id" :> "R-001">>}

\* the input_data a caller may pass: nothing, an empty dict, a dict with or
\* without its "risks" and "controls", a str holding JSON or prose, a list
V3_Inputs ==
    {PyNone, PyDict(EmptyDict), PyList(<<>>), Text(<<Prose>>), Text(<<Json(PyList(<<>>))>>)}
    \cup {PyDict("risks" :> PyList(r) @@ "controls" :> PyList(c)) :
            r \in V3_RiskLists, c \in V3_ControlLists}
    \cup {PyDict("risks" :> PyList(r)) : r \in V3_RiskLists}
    \cup {PyDict("controls" :> PyList(c)) : c \in {<<>>, <<"isKey" :> TRUE>>}}
    \cup {PyDict("risks" :> PyList(<<"id" :> "R-001">>) @@ "controls" :> PyList(c)) :
            c \in {<<V3_NullResultControl>>,
                   <<"isKey" :> FALSE @@ "testResult" :> PyStr("Passed"), V3_NullResultControl>>}}
    \cup {Text(<<Json(PyDict("risks" :> PyList(<<"id" :> "R-001">>)
                              @@ "controls" :> PyList(<<"isKey" :> TRUE @@ "testResult" :> PyStr("Passed")>>)))>>)}

\* lines 152-157: risks and controls copied from the parsed dict
V3_store_parsed(st, parsed_data) ==
    Put(Put(st, "risks", Get(parsed_data, "risks", PyList(<<>>))),
        "controls", Get(parsed_data, "controls", PyList(<<>>)))

\* parse_input_data, lines 122-165: a dict is used as it is, a str is parsed
\* as JSON (.get on a parsed value that is no dict raises AttributeError)
V3_parse_input_data(st) ==
    LET input_data == Get(st, "input_data", PyNone)
    IN IF Falsy(st, "input_data") THEN SetError(st, "Input data not provided")
       ELSE IF "dict" \in DOMAIN input_data THEN V3_store_parsed(st, input_data.dict)
       ELSE IF "text" \in DOMAIN input_data
            THEN LET parsed == json_loads(input_data.text)
                 IN IF ~parsed.ok
                    THEN SetError(st, "Error parsing input data: " \o JSONDecodeErrorMsg)
                    ELSE IF "dict" \notin DOMAIN parsed.value
                    THEN SetError(st, "Error parsing input data: 'list' object has no attribute 'get'")
                    ELSE V3_store_parsed(st, parsed.value.dict)
       ELSE SetError(st, "Unsupported input data type")

\* str.lower() on the test results of the model
Lower(x) == IF x = "Passed" THEN "passed" ELSE IF x = "Failed" THEN "failed" ELSE x

\* line 208: test_result.lower() raises AttributeError when the control has
\* a testResult that is no str
lower_raises(control) ==
    IF "testResult" \in DOMAIN control THEN "str" \notin DOMAIN control["testResult"] ELSE FALSE

Inc(metrics, k) == [metrics EXCEPT ![k] = PyInt(@.int + 1)]

\* lines 199-228: one pass of the loop over the controls
V3_count_control(metrics, control) ==
    LET is_key == Get(control, "isKey", FALSE)
        has_results == "testResult" \in DOMAIN control
        passed == IF has_results THEN Lower(control["testResult"].str) = "passed" ELSE FALSE
    IN IF is_key
       THEN LET m == Inc(metrics, "key_controls_total")
            IN IF has_results
               THEN (IF passed THEN Inc(m, "key_controls_passed") ELSE Inc(m, "key_controls_failed"))
               ELSE Inc(m, "controls_without_results")
       ELSE LET m == Inc(metrics, "nonkey_controls_total")
            IN IF has_results
               THEN (IF passed THEN Inc(m, "nonkey_controls_passed") ELSE Inc(m, "nonkey_controls_failed"))
               ELSE Inc(m, "controls_without_results")

RECURSIVE V3_count_controls(_, _, _)
\* the loop of line 199 from control i on
V3_count_controls(metrics, controls, i) ==
    IF i > Len(controls) THEN metrics
    ELSE V3_count_controls(V3_count_control(metrics, controls[i]), controls, i + 1)

\* lines 196-232: the metrics of a non-empty list of controls
V3_metrics_of(controls) ==
    LET metrics == V3_count_controls(V3_ControlMetrics, controls, 1)
    IN IF metrics.key_controls_total = PyInt(0) /\ metrics.nonkey_controls_total = PyInt(0)
       THEN [metrics EXCEPT !.data_availability = PyStr("incomplete")]
       ELSE metrics

\* lines 183-192: the placeholder stored when there are no controls
V3_NoMetrics ==
    [ key_controls_total |-> PyStr("no data available"),
      nonkey_controls_total |-> PyStr("no data available"),
      key_controls_passed |-> PyStr("no data available"),
      key_controls_failed |-> PyStr("no data available"),
      nonkey_controls_passed |-> PyStr("no data available"),
      nonkey_controls_failed |-> PyStr("no data available"),
      controls_without_results |-> PyStr("no data available"),
      data_availability |-> PyStr("incomplete") ]

\* whether calculate_control_metrics raises: the loop of line 199 reaches a
\* control on which line 208 raises, and the function has no handler
V3_calculate_raises(st) ==
    IF Falsy(st, "controls") THEN FALSE
    ELSE \E i \in 1..Len(st["controls"].list) : lower_raises(st["controls"].list[i])

\* calculate_control_metrics, lines 167-241: the new state when it returns
\* (self.control_metrics is set by the action)
V3_calculate_control_metrics(st) ==
    IF Falsy(st, "controls")
    THEN Put(SetError(st, "No controls available for metric calculation"), "metrics", V3_NoMetrics)
    ELSE Put(st, "metrics", V3_metrics_of(st["controls"].list))

\* a faulty variant of evaluate_control_effectiveness: only the controls are
\* required
V3_evaluate_control_effectiveness_controls_only(st, evaluation, extraction) ==
    IF Falsy(st, "controls") THEN insufficient_data(st)
    ELSE evaluate_with_llm(st, evaluation, extraction)

\* evaluate_control_effectiveness, lines 243-331
V3_evaluate_control_effectiveness(st, evaluation, extraction) ==
    IF Falsy(st, "risks") \/ Falsy(st, "controls") THEN insufficient_data(st)
    ELSE evaluate_with_llm(st, evaluation, extraction)

\* lines 350-358 and 409-417: key.endswith("_total")
EndsWithTotal(k) == k \in {"key_controls_total", "nonkey_controls_total"}

\* a faulty variant of format_metrics: every metric equal to 0 is rendered
\* as missing
format_metrics_any_zero(metrics) ==
    [key \in DOMAIN metrics |->
        IF key = "data_availability" THEN metrics[key]
        ELSE IF metrics[key] = PyInt(0) THEN PyStr("no data available")
        ELSE metrics[key]]

\* lines 350-358: the metrics as the report shows them
format_metrics(metrics) ==
    [key \in DOMAIN metrics |->
        IF key = "data_availability" THEN metrics[key]
        ELSE IF metrics[key] = PyInt(0) /\ EndsWithTotal(key) THEN PyStr("no data available")
        ELSE metrics[key]]

\* lines 346-365: the report built from the state
V3_assessment_report(st) ==
    [ effectiveness_rating |-> Get(st, "effectiveness_rating", PyStr("no data available")),
      effectiveness_justification |-> Get(st, "effectiveness_justification", PyStr("")),
      metrics |-> format_metrics(Get(st, "metrics", EmptyDict)) ]

\* a faulty variant of generate_assessment_report: the formatted metrics
\* are stored back into state["metrics"]
V3_generate_assessment_report_in_place(st) ==
    Put(Put(st, "assessment_report", V3_assessment_report(st)),
        "metrics", format_metrics(Get(st, "metrics", EmptyDict)))

\* generate_assessment_report, lines 333-374: the new state
\* (self.assessment_results is set by the action)
V3_generate_assessment_report(st) == Put(st, "assessment_report", V3_assessment_report(st))

\* run, lines 393-398: what the caller gets from the final state
V3_run(result) == Get(result, "assessment_report", EmptyDict)

\* get_metrics_report, lines 400-419: its own copy of the formatting loop
get_metrics_report(agent) ==
    LET metrics == agent.control_metrics
    IN [key \in DOMAIN metrics |->
           IF key = "data_availability" THEN metrics[key]
           ELSE IF metrics[key] = PyInt(0) /\ EndsWithTotal(key) THEN PyStr("no data available")
           ELSE metrics[key]]

V3_parse ==
    /\ program = "effectivenessv3" /\ node = "parse_input_data"
    /\ RunDictStage("parse_input_data", V3_parse_input_data(state), <<>>,
                    "calculate_control_metrics")
    /\ UNCHANGED self

V3_calculate ==
    /\ program = "effectivenessv3" /\ node = "calculate_control_metrics"
    /\ IF V3_calculate_raises(state)
       THEN /\ node' = "RAISED"
            /\ trace' = Append(trace, [stage |-> "calculate_control_metrics", pre |-> state,
                                       post |-> state, set_error |-> FALSE, ncalls |-> 0,
                                       raised |-> Some("'NoneType' object has no attribute 'lower'")])
            /\ UNCHANGED <<program, state, session_state, self, calls>>
       ELSE /\ RunDictStage("calculate_control_metrics", V3_calculate_control_metrics(state), <<>>,
                            "evaluate_control_effectiveness")
            /\ self' = IF Falsy(state, "controls") THEN self
                       ELSE [self EXCEPT !.control_metrics = V3_metrics_of(state["controls"].list)]

V3_evaluate ==
    /\ program = "effectivenessv3" /\ node = "evaluate_control_effectiveness"
    /\ \/ /\ Falsy(state, "risks") \/ Falsy(state, "controls")
          /\ RunDictStage("evaluate_control_effectiveness",
                          V3_evaluate_control_effectiveness(state, Raise(""), Raise("")),
                          <<>>, "generate_assessment_report")
       \/ /\ ~(Falsy(state, "risks") \/ Falsy(state, "controls"))
          /\ \E evaluation \in EvaluationResponses, extraction \in Responses(ExtractionResults) :
                RunDictStage("evaluate_control_effectiveness",
                             V3_evaluate_control_effectiveness(state, evaluation, extraction),
                             evaluate_call_oks(evaluation, extraction),
                             "generate_assessment_report")
    /\ UNCHANGED self

V3_report ==
    /\ program = "effectivenessv3" /\ node = "generate_assessment_report"
    /\ RunDictStage("generate_assessment_report", V3_generate_assessment_report(state), <<>>, "END")
    /\ self' = [self EXCEPT !.assessment_results = V3_assessment_report(state)]

\* the attributes of an agent that has run before, on one key control that
\* passed: what lines 236 and 369 left in them
V3_EarlierRun ==
    LET metrics == V3_metrics_of(<<"isKey" :> TRUE @@ "testResult" :> PyStr("Passed")>>)
    IN [ assessment_results |->
             [ effectiveness_rating |-> PyInt(2),
               effectiveness_justification |-> PyStr("tests mostly pass"),
               metrics |-> format_metrics(metrics) ],
         control_metrics |-> metrics ]

\* the input_data of the later run of such an agent
V3_LaterInputs ==
    { PyDict("risks" :> PyList(<<"id" :> "R-001">>)),
      PyDict("risks" :> PyList(<<"id" :> "R-001">>)
             @@ "controls" :> PyList(<<"isKey" :> FALSE @@ "testResult" :> PyStr("Failed")>>)) }

\* __init__, lines 91-93, and run, line 387: the first run of a new agent, or
\* a later run of an agent that has run before
V3_Init ==
    /\ program = "effectivenessv3"
    /\ node = "parse_input_data"
    /\ session_state = NoSession
    /\ \/ /\ state \in {[k \in {"input_data"} |-> i] : i \in V3_Inputs}
          /\ self = [assessment_results |-> EmptyDict, control_metrics |-> V3_ControlMetrics]
       \/ /\ state \in {[k \in {"input_data"} |-> i] : i \in V3_LaterInputs}
          /\ self = V3_EarlierRun
    /\ trace = <<>>
    /\ calls = <<>>

----------------------------------------------------------------------------
(* effv2.py: read_document -> extract_risks -> extract_controls ->         *)
(* assess_control_effectiveness -> identify_gaps -> ..., joined by         *)
(* unconditional edges.  A node that raises ends the run: node = "RAISED". *)

\* the state a caller may pass: with a document path, with an empty one,
\* without one
V2_InitialStates ==
    { EmptyDict,
      "document_path" :> PyStr(""),
      "document_path" :> PyStr("risk_assessment.txt") }

\* outcomes of open(document_path).read(): OSError, an empty file, a document
V2_ReadOutcomes ==
    { [ok |-> FALSE, msg |-> "[Errno 2] No such file or directory"],
      [ok |-> TRUE, content |-> Text(<<>>)],
      [ok |-> TRUE, content |-> Text(<<Prose>>)] }

\* read_document, lines 118-149; [raised, state]
V2_read_document(st, outcome) ==
    IF Falsy(st, "document_path")
    THEN [raised |-> Some("ValueError: Document path not provided in the state"), state |-> st]
    ELSE IF outcome.ok THEN [raised |-> None, state |-> Put(st, "document_content", outcome.content)]
    ELSE [raised |-> None, state |-> SetError(st, "Error reading document: " \o outcome.msg)]

\* JSON values the structuring calls may return
V2_JsonResults(key) == { PyDict(key :> PyList(<<>>)), PyDict(key :> PyList(<<"description" :> "item">>)) }

\* lines 179-206, 240-267, 317-344: the two completion calls of an
\* extraction stage and json.loads of the second response (parsed whole);
\* slot is the state key written, empty the key of the empty fallback value,
\* raw the key of the raw response
V2_extract_with_llm(st, slot, empty, raw, failed_to_parse, stage_error, first, second) ==
    IF first.kind = "raise" THEN SetError(st, stage_error \o first.msg)
    ELSE IF second.kind = "raise" THEN SetError(st, stage_error \o second.msg)
    ELSE LET parsed == json_loads(second.content)
         IN IF parsed.ok THEN Put(st, slot, parsed.value)
            ELSE SetError(Put(Put(st, slot, PyDict(empty :> PyList(<<>>))), raw, Text(second.content)),
                          failed_to_parse)

\* extract_risks, lines 151-208
V2_extract_risks(st, first, second) ==
    IF Falsy(st, "document_content")
    THEN SetError(st, "Document content not available for risk extraction")
    ELSE V2_extract_with_llm(st, "risks", "risks", "risk_extraction_raw",
                             "Failed to parse risk extraction result as JSON",
                             "Error extracting risks: ", first, second)

\* a faulty variant of extract_controls: without document content it stores
\* an empty list of controls next to the error
V2_extract_controls_writes_empty(st, first, second) ==
    IF Falsy(st, "document_content")
    THEN SetError(Put(st, "controls", PyDict("controls" :> PyList(<<>>))),
                  "Document content not available for control extraction")
    ELSE V2_extract_with_llm(st, "controls", "controls", "control_extraction_raw",
                             "Failed to parse control extraction result as JSON",
                             "Error extracting controls: ", first, second)

\* extract_controls, lines 210-269
V2_extract_controls(st, first, second) ==
    IF Falsy(st, "document_content")
    THEN SetError(st, "Document content not available for control extraction")
    ELSE V2_extract_with_llm(st, "controls", "controls", "control_extraction_raw",
                             "Failed to parse control extraction result as JSON",
                             "Error extracting controls: ", first, second)

\* assess_control_effectiveness, lines 271-346
V2_assess_control_effectiveness(st, first, second) ==
    IF Falsy(st, "document_content")
    THEN SetError(st, "Document content not available for control effectiveness assessment")
    ELSE V2_extract_with_llm(st, "effectiveness_assessment", "assessments", "assessment_raw",
                             "Failed to parse effectiveness assessment result as JSON",
                             "Error assessing control effectiveness: ", first, second)

\* identify_gaps, lines 348-405: the guard and the first completion call are
\* in the source tree; the second call and the parsing follow the pattern of
\* the three stages before it
V2_identify_gaps(st, first, second) ==
    IF Falsy(st, "document_content")
    THEN SetError(st, "Document content not available for gap identification")
    ELSE V2_extract_with_llm(st, "gaps", "gaps", "gap_identification_raw",
                             "Failed to parse gap identification result as JSON",
                             "Error identifying gaps: ", first, second)

V2_read ==
    /\ program = "effv2" /\ node = "read_document"
    /\ \E outcome \in V2_ReadOutcomes :
          LET r == V2_read_document(state, outcome)
          IN IF r.raised # None
             THEN /\ node' = "RAISED"
                  /\ trace' = Append(trace, [stage |-> "read_document", pre |-> state, post |-> state,
                                             set_error |-> FALSE, ncalls |-> 0, raised |-> r.raised])
                  /\ UNCHANGED <<program, state, session_state, calls>>
             ELSE RunDictStage("read_document", r.state, <<>>, "extract_risks")
    /\ UNCHANGED self

\* the nodes of _create_workflow, lines 92-100: the function of each stage
V2_node(stage, st, first, second) ==
    CASE stage = "extract_risks" -> V2_extract_risks(st, first, second)
      [] stage = "extract_controls" -> V2_extract_controls(st, first, second)
      [] stage = "assess_control_effectiveness" -> V2_assess_control_effectiveness(st, first, second)
      [] OTHER -> V2_identify_gaps(st, first, second)

\* a stage of effv2.py: no completion call without document_content, two
\* otherwise; the parsed value is also kept in the agent attribute attr
\* (lines 195, 256, 333)
V2_llm_stage(stage, next, attr, slot) ==
    IF Falsy(state, "document_content")
    THEN /\ RunDictStage(stage, V2_node(stage, state, Raise(""), Raise("")), <<>>, next)
         /\ UNCHANGED self
    ELSE \E first \in EvaluationResponses, second \in Responses(V2_JsonResults(slot)) :
            LET new == V2_node(stage, state, first, second)
            IN /\ RunDictStage(stage, new, evaluate_call_oks(first, second), next)
               /\ self' = IF /\ attr \in DOMAIN self
                             /\ first.kind = "content" /\ second.kind = "content"
                             /\ json_loads(second.content).ok
                          THEN [self EXCEPT ![attr] = new[slot]] ELSE self

V2_risks ==
    /\ program = "effv2" /\ node = "extract_risks"
    /\ V2_llm_stage("extract_risks", "extract_controls", "risk_data", "risks")

V2_controls ==
    /\ program = "effv2" /\ node = "extract_controls"
    /\ V2_llm_stage("extract_controls", "assess_control_effectiveness",
                    "control_data", "controls")

V2_assess ==
    /\ program = "effv2" /\ node = "assess_control_effectiveness"
    /\ V2_llm_stage("assess_control_effectiveness", "identify_gaps",
                    "effectiveness_assessment", "effectiveness_assessment")

\* the nodes after identify_gaps are not in the source tree: the model stops
\* at generate_recommendations
V2_gaps ==
    /\ program = "effv2" /\ node = "identify_gaps"
    /\ V2_llm_stage("identify_gaps", "generate_recommendations", "", "gaps")

\* __init__, lines 80-83
V2_Init ==
    /\ program = "effv2"
    /\ node = "read_document"
    /\ state \in V2_InitialStates
    /\ session_state = NoSession
    /\ self = [risk_data |-> PyDict(EmptyDict), control_data |-> PyDict(EmptyDict),
               effectiveness_assessment |-> PyDict(EmptyDict)]
    /\ trace = <<>>
    /\ calls = <<>>

----------------------------------------------------------------------------
(* effect_v5.py: _parse_input -> _extract_metrics -> _assess_effectiveness *)
(* -> _generate_recommendations -> _format_output, run in the order of    *)
(* the edges declared in _build_graph (lines 74-78).  The stages have no   *)
(* error slot and no handler around their completion calls.                *)

\* a line of a response that starts with "- "
Bullet(x) == [t |-> "bullet", v |-> x]

\* the input a caller may pass: structured data, a str holding JSON, a str
\* holding prose
V5_Inputs ==
    { PyList(<<"Summary for Passed Tests" :> V4_PassedSummary(PyInt(1))>>),
      Text(<<Json(PyDict("tests" :> PyInt(3)))>>),
      Text(<<Prose>>) }

\* run, line 228
V5_initial_state(input_data) ==
    "input" :> input_data @@ "history" :> <<>> @@ "assessment" :> PyDict(EmptyDict)

\* a node's returned dict written into the graph state, key by key
Merge(st, returned) ==
    [k \in (DOMAIN st) \cup (DOMAIN returned) |-> IF k \in DOMAIN returned THEN returned[k] ELSE st[k]]

\* outcomes of self.model.invoke(prompt) in _parse_input
V5_ParseResponses ==
    {Raise(m) : m \in ServiceErrorMsgs}
    \cup {Content(<<Prose>>), Content(<<Json(PyDict("tests" :> PyInt(3)))>>),
          Content(<<Prose, FenceOpen, Json(PyDict("tests" :> PyInt(3))), FenceClose>>)}

\* _parse_input, lines 85-108; [raised, returned]
V5_parse_input(st, response) ==
    LET input == st["input"]
        parsed == IF "text" \in DOMAIN input THEN json_loads(input.text)
                  ELSE [ok |-> TRUE, value |-> input]
    IN IF parsed.ok
       THEN [raised |-> None,
             returned |-> "input" :> parsed.value @@ "history" :> st["history"]
                          @@ "parsed_data" :> parsed.value]
       ELSE IF response.kind = "raise"
       THEN [raised |-> Some(response.msg), returned |-> EmptyDict]
       ELSE LET again == json_loads(response.content)
                parsed_data == IF again.ok THEN again.value
                               ELSE PyDict("raw_text" :> Text(response.content))
            IN [raised |-> None,
                returned |-> "input" :> input @@ "history" :> st["history"]
                             @@ "parsed_data" :> parsed_data]

\* whether _parse_input calls the model: line 90 raised JSONDecodeError
V5_parse_calls(st) == "text" \in DOMAIN st["input"] /\ ~json_loads(st["input"].text).ok

\* JsonOutputParser: the JSON value of the response, fenced or not;
\* OutputParserException when there is none
JsonOutputParser(content) == json_loads(json_str_of(content))

\* the ControlMetrics objects the metrics call may return: the seven numbers,
\* or "no data available" where the prompt allows it (lines 116-122)
V5_MetricsResults ==
    { PyDict([total_controls |-> t, key_controls_passed |-> PyInt(1), key_controls_failed |-> PyInt(0),
              nonkey_controls_passed |-> PyInt(1), nonkey_controls_failed |-> PyInt(1),
              pass_rate |-> PyInt(66), sample_ratio_average |-> PyInt(34)]) :
        t \in {PyInt(3), PyStr("no data available")} }

\* the RiskAssessment objects the assessment call may return
V5_AssessmentResults ==
    { PyDict([effectiveness_rating |-> PyInt(r), rating_description |-> PyStr("moderate"),
              identified_gaps |-> PyList(<<"no owner named">>),
              countries_of_concern |-> PyList(<<"CHINA">>)]) : r \in Scores }

\* a chain prompt | model | parser: [raised, value]
V5_chain_invoke(response) ==
    IF response.kind = "raise" THEN [raised |-> Some(response.msg)]
    ELSE LET parsed == JsonOutputParser(response.content)
         IN IF parsed.ok THEN [raised |-> None, value |-> parsed.value]
            ELSE [raised |-> Some("OutputParserException: Invalid json output")]

\* _extract_metrics, lines 110-135; [raised, returned]
V5_extract_metrics(st, response) ==
    LET metrics == V5_chain_invoke(response)
    IN IF metrics.raised # None THEN [raised |-> metrics.raised, returned |-> EmptyDict]
       ELSE [raised |-> None,
             returned |-> "input" :> st["input"] @@ "history" :> st["history"]
                          @@ "parsed_data" :> st["parsed_data"] @@ "metrics" :> metrics.value]

\* a faulty variant of _assess_effectiveness: it returns a fresh history
V5_assess_effectiveness_fresh_history(st, response) ==
    LET assessment == V5_chain_invoke(response)
    IN IF assessment.raised # None THEN [raised |-> assessment.raised, returned |-> EmptyDict]
       ELSE [raised |-> None,
             returned |-> "input" :> st["input"] @@ "history" :> <<>>
                          @@ "parsed_data" :> st["parsed_data"] @@ "metrics" :> st["metrics"]
                          @@ "assessment" :> assessment.value]

\* _assess_effectiveness, lines 137-166; [raised, returned]
V5_assess_effectiveness(st, response) ==
    LET assessment == V5_chain_invoke(response)
    IN IF assessment.raised # None THEN [raised |-> assessment.raised, returned |-> EmptyDict]
       ELSE [raised |-> None,
             returned |-> "input" :> st["input"] @@ "history" :> st["history"]
                          @@ "parsed_data" :> st["parsed_data"] @@ "metrics" :> st["metrics"]
                          @@ "assessment" :> assessment.value]

\* texts the recommendations call may return
V5_RecommendationResponses ==
    {Raise(m) : m \in ServiceErrorMsgs}
    \cup {Content(x) : x \in
            { <<Json(PyDict("recommendations" :> PyList(<<PyStr("name an owner")>>)))>>,
              <<Json(PyList(<<PyStr("name an owner")>>))>>,
              <<Json(PyDict("advice" :> PyStr("name an owner")))>>,
              <<Prose, Bullet("- name an owner"), Bullet("- keep evidence")>>,
              <<Prose>>,
              <<FenceOpen, Json(PyList(<<PyStr("name an owner")>>)), FenceClose>> }}

\* a faulty variant of V5_recommendations_of: a text without JSON and without
\* bullet lines gives no recommendation at all
V5_recommendations_of_bullets_only(content) ==
    LET parsed == json_loads(content)
    IN IF parsed.ok
       THEN IF "dict" \in DOMAIN parsed.value /\ "recommendations" \in DOMAIN parsed.value.dict
            THEN parsed.value.dict["recommendations"]
            ELSE IF "list" \notin DOMAIN parsed.value THEN PyList(<<Text(content)>>)
            ELSE parsed.value
       ELSE LET bullets == SelectSeq(content, LAMBDA tok : tok.t = "bullet")
            IN PyList([i \in 1..Len(bullets) |-> PyStr(bullets[i].v)])

\* lines 187-197: the recommendations read from the response
V5_recommendations_of(content) ==
    LET parsed == json_loads(content)
    IN IF parsed.ok
       THEN IF "dict" \in DOMAIN parsed.value /\ "recommendations" \in DOMAIN parsed.value.dict
            THEN parsed.value.dict["recommendations"]
            ELSE IF "list" \notin DOMAIN parsed.value THEN PyList(<<Text(content)>>)
            ELSE parsed.value
       ELSE LET bullets == SelectSeq(content, LAMBDA tok : tok.t = "bullet")
            IN IF bullets # <<>> THEN PyList([i \in 1..Len(bullets) |-> PyStr(bullets[i].v)])
               ELSE PyList(<<Text(content)>>)

\* _generate_recommendations, lines 168-206; [raised, returned]
V5_generate_recommendations(st, response) ==
    IF response.kind = "raise" THEN [raised |-> Some(response.msg), returned |-> EmptyDict]
    ELSE [raised |-> None,
          returned |-> "input" :> st["input"] @@ "history" :> st["history"]
                       @@ "parsed_data" :> st["parsed_data"] @@ "metrics" :> st["metrics"]
                       @@ "assessment" :> st["assessment"]
                       @@ "recommendations" :> V5_recommendations_of(response.content)]

\* pydantic validation of ControlAssessment(metrics, assessment,
\* recommendations), lines 13-31 and 214-218: every metric a number
V5_valid(metrics, assessment, recommendations) ==
    /\ "dict" \in DOMAIN metrics
    /\ \A k \in DOMAIN metrics.dict : "int" \in DOMAIN metrics.dict[k]
    /\ "dict" \in DOMAIN assessment
    /\ "list" \in DOMAIN recommendations

\* _format_output, lines 208-224; [raised, returned]
V5_format_output(st) ==
    IF ~V5_valid(st["metrics"], st["assessment"], st["recommendations"])
    THEN [raised |-> Some("ValidationError"), returned |-> EmptyDict]
    ELSE [raised |-> None,
          returned |-> "input" :> st["input"] @@ "history" :> st["history"]
                       @@ "assessment" :>
                            PyDict([metrics |-> st["metrics"], assessment |-> st["assessment"],
                                    recommendations |-> st["recommendations"]])]

\* the nodes of _build_graph, lines 67-71: the function of each stage
V5_node(stage, st, response) ==
    CASE stage = "parse_input" -> V5_parse_input(st, response)
      [] stage = "extract_metrics" -> V5_extract_metrics(st, response)
      [] stage = "assess_effectiveness" -> V5_assess_effectiveness(st, response)
      [] stage = "generate_recommendations" -> V5_generate_recommendations(st, response)
      [] OTHER -> V5_format_output(st)

\* the outcomes of the completion call of each stage
V5_responses(stage) ==
    CASE stage = "parse_input" -> V5_ParseResponses
      [] stage = "extract_metrics" -> Responses(V5_MetricsResults)
      [] stage = "assess_effectiveness" -> Responses(V5_AssessmentResults)
      [] stage = "generate_recommendations" -> V5_RecommendationResponses
      [] OTHER -> {Raise("")}

\* one node of the effect_v5.py graph running: the returned dict is merged
\* into the state, an exception leaves the graph
V5_RunStage(stage, r, oks, next) ==
    /\ state' = IF r.raised = None THEN Merge(state, r.returned) ELSE state
    /\ node' = IF r.raised = None THEN next ELSE "RAISED"
    /\ trace' = Append(trace, [stage |-> stage, pre |-> state,
                               post |-> IF r.raised = None THEN Merge(state, r.returned) ELSE state,
                               set_error |-> FALSE, ncalls |-> Len(oks), raised |-> r.raised])
    /\ calls' = calls \o [i \in 1..Len(oks) |-> [stage |-> stage, ok |-> oks[i], after_error |-> FALSE]]
    /\ UNCHANGED <<program, session_state, self>>

V5_parse ==
    /\ program = "effect_v5" /\ node = "parse_input"
    /\ IF V5_parse_calls(state)
       THEN \E response \in V5_ParseResponses :
               V5_RunStage("parse_input", V5_parse_input(state, response),
                           <<response.kind = "content">>, "extract_metrics")
       ELSE V5_RunStage("parse_input", V5_parse_input(state, Raise("")), <<>>, "extract_metrics")

V5_metrics ==
    /\ program = "effect_v5" /\ node = "extract_metrics"
    /\ \E response \in Responses(V5_MetricsResults) :
          V5_RunStage("extract_metrics", V5_extract_metrics(state, response),
                      <<response.kind = "content">>, "assess_effectiveness")

V5_assess ==
    /\ program = "effect_v5" /\ node = "assess_effectiveness"
    /\ \E response \in Responses(V5_AssessmentResults) :
          V5_RunStage("assess_effectiveness", V5_assess_effectiveness(state, response),
                      <<response.kind = "content">>, "generate_recommendations")

V5_recommend ==
    /\ program = "effect_v5" /\ node = "generate_recommendations"
    /\ \E response \in V5_RecommendationResponses :
          V5_RunStage("generate_recommendations", V5_generate_recommendations(state, response),
                      <<response.kind = "content">>, "format_output")

V5_format ==
    /\ program = "effect_v5" /\ node = "format_output"
    /\ V5_RunStage("format_output", V5_format_output(state), <<>>, "END")

\* __init__, lines 35-37, and run, lines 226-229
V5_Init ==
    /\ program = "effect_v5"
    /\ node = "parse_input"
    /\ state \in {V5_initial_state(i) : i \in V5_Inputs}
    /\ session_state = NoSession
    /\ self = EmptyDict
    /\ trace = <<>>
    /\ calls = <<>>

----------------------------------------------------------------------------
(* self_reflection.py, main: the Streamlit script.  Every interaction runs  *)
(* the script from the top; st.session_state outlives the script runs of    *)
(* one session.  A click on Evaluate with a text runs the whole graph.      *)

\* evaluations in one session
MaxEvaluations == 2

\* outcomes of the completion call of a stage in a session: a failure with
\* or without a message, or a well-formed fenced answer rated s
FE_Responses(stage) ==
    {Raise(m) : m \in ServiceErrorMsgs}
    \cup {Content(<<Prose, FenceOpen>> \o json_dumps(p) \o <<FenceClose, Prose>>) :
            p \in CASE stage = "evaluate" ->
                        {[metrics |-> Graded, overall_score |-> 4, overall_assessment |-> "adequate"]}
                     [] stage = "reflect" ->
                        {[feedback_points |-> <<"no owner named">>,
                          perspective_changes |-> "consider cost",
                          reflection_summary |-> "mostly sound"]}
                     [] OTHER ->
                        {[final_score |-> 3, final_assessment |-> "adequate after review"]}}

\* graph.invoke(initial_state), line 437: the nodes and conditional edges of
\* create_graph run to END; [state, stage] with the last stage that ran
graph_invoke(initial_state, r1, r2, r3) ==
    LET s1 == evaluate_effectiveness(initial_state, r1)
    IN IF EdgeTarget(decide_after_evaluation(s1)) = "END" THEN [state |-> s1, stage |-> "evaluate"]
       ELSE LET s2 == self_reflection(s1, r2)
            IN IF EdgeTarget(decide_after_reflection(s2)) = "END"
               THEN [state |-> s2, stage |-> "reflect"]
               ELSE [state |-> reassess(s2, r3), stage |-> "reassess"]

\* every outcome of graph.invoke in a session: the text evaluated and the
\* outcome of each completion call vary
FE_Runs ==
    {graph_invoke(State(t), r1, r2, r3) :
        t \in InputTexts, r1 \in FE_Responses("evaluate"),
        r2 \in FE_Responses("reflect"), r3 \in FE_Responses("reassess")}

\* lines 442-446: the result is kept in the session unless it has an error
FE_results_after(results, result) == IF Truthy(result.error) THEN results ELSE Some(result)

\* line 449: the result the results section is drawn from, None when the
\* section is not drawn
FE_displayed(results) ==
    IF results # None THEN (IF ~Truthy(results[1].error) THEN results ELSE None) ELSE None

\* one run of the script, lines 326-450, with the widget values of this run
FE_main ==
    /\ program = "self_reflection_main" /\ node = "main"
    /\ Len(trace) < MaxEvaluations
    /\ \E evaluate_button \in BOOLEAN, input_text \in InputTexts \cup {""} :
          IF evaluate_button /\ input_text # ""
          THEN \E ran \in {x \in FE_Runs : x.state.input_text = input_text} :
                  LET result == ran.state
                      results == FE_results_after(session_state.results, result)
                      after == session_after(ran.stage, result)
                  IN /\ state' = result
                     /\ session_state' = [progress |-> after.progress,
                                          status_message |-> after.status_message,
                                          results |-> results]
                     /\ trace' = Append(trace, [input_text |-> input_text, result |-> result,
                                                displayed |-> FE_displayed(results)])
          ELSE UNCHANGED <<state, session_state, trace>>
    /\ UNCHANGED <<program, node, self, calls>>

\* the first script run of a session, lines 382-388
FE_Init ==
    /\ program = "self_reflection_main"
    /\ node = "main"
    /\ state = State("")
    /\ session_state = [progress |-> 0, status_message |-> <<"Ready to evaluate">>,
                        results |-> None]
    /\ self = <<>>
    /\ trace = <<>>
    /\ calls = <<>>

----------------------------------------------------------------------------
(* docxparser2805.py: extract_docx_content_by_pages_2.  The document is the *)
(* input: its paragraphs in order, whether it has a table, whether the      *)
(* footer of its first section has paragraphs.  state holds the locals of   *)
(* the function: the index of the next paragraph, pages, page_count and     *)
(* current_content.                                                        *)

\* longest document of which every sequence of paragraphs is tried
MaxParagraphs == 3

\* line 58: the number of body paragraphs at which a page is flushed
PageSize == 10

Digits == <<"0", "1", "2", "3", "4", "5", "6", "7", "8", "9">>

RECURSIVE py_str(_)
\* str(n) of a non-negative int, line 26
py_str(n) == IF n < 10 THEN Digits[n + 1] ELSE py_str(n \div 10) \o Digits[(n % 10) + 1]

\* the paragraphs a document may hold: one without text, a first-level and
\* a second-level heading, a body paragraph whose run holds a manual page
\* break, a body paragraph
DX_Paragraphs ==
    { [style |-> "Normal", text |-> "", page_break |-> FALSE],
      [style |-> "Heading 1", text |-> "Scope", page_break |-> FALSE],
      [style |-> "Heading 2", text |-> "Details", page_break |-> FALSE],
      [style |-> "Normal", text |-> "continued", page_break |-> TRUE],
      [style |-> "Normal", text |-> "body", page_break |-> FALSE] }

\* the documents read: every sequence of up to MaxParagraphs paragraphs, and
\* long ones that fill pages or break them many times; each with or without
\* a table and footer paragraphs
DX_Documents ==
    LET Body == [style |-> "Normal", text |-> "body", page_break |-> FALSE]
        Break == [style |-> "Normal", text |-> "continued", page_break |-> TRUE]
        Heading == [style |-> "Heading 1", text |-> "Scope", page_break |-> FALSE]
        short == UNION {[1..n -> DX_Paragraphs] : n \in 0..MaxParagraphs}
        long == { [i \in 1..(PageSize + 1) |-> Body],
                  [i \in 1..(2 * PageSize) |-> Body],
                  [i \in 1..(2 * PageSize + 2) |-> IF i = PageSize + 1 THEN Heading ELSE Body],
                  [i \in 1..(PageSize + 1) |-> IF i = PageSize THEN Break ELSE Body],
                  [i \in 1..(2 * PageSize + 3) |-> IF i % 2 = 1 THEN Body ELSE Break] }
    IN {[paragraphs |-> p, tables |-> t, footer_texts |-> f] :
            p \in short \cup long, t \in 0..1, f \in BOOLEAN}

\* lines 15-21 and 30-36: an empty page content
DX_empty_content ==
    [heading1 |-> None, heading2 |-> None, paragraph |-> <<>>, table |-> <<>>, footers |-> <<>>]

\* a faulty variant of start_new_page: page_count is not advanced
DX_start_new_page_same_number(st) ==
    [st EXCEPT !.pages = Append(@, [page |-> py_str(st.page_count),
                                    content |-> st.current_content]),
               !.current_content = DX_empty_content]

\* start_new_page, lines 23-36
DX_start_new_page(st) ==
    [st EXCEPT !.pages = Append(@, [page |-> py_str(st.page_count),
                                    content |-> st.current_content]),
               !.page_count = @ + 1,
               !.current_content = DX_empty_content]

\* lines 38-59: one pass of the loop, on paragraph para
DX_loop_body(st, para) ==
    IF para.text = "" THEN st
    ELSE LET s1 == IF para.style = "Heading 1"
                   THEN [st EXCEPT !.current_content.heading1 = Some(para.text)]
                   ELSE IF para.style = "Heading 2"
                   THEN [st EXCEPT !.current_content.heading2 = Some(para.text)]
                   ELSE IF para.page_break THEN DX_start_new_page(st)
                   ELSE [st EXCEPT !.current_content.paragraph = Append(@, para.text)]
         IN IF Len(s1.current_content.paragraph) >= PageSize THEN DX_start_new_page(s1) ELSE s1

\* any(current_content.values()), line 62
DX_any(content) ==
    \/ content.heading1 # None
    \/ content.heading2 # None
    \/ content.paragraph # <<>>
    \/ content.table # <<>>
    \/ content.footers # <<>>

\* lines 61-83: the remaining content and the tables go into pages
DX_close_pages(st, tables) ==
    LET s1 == IF DX_any(st.current_content)
              THEN [st EXCEPT !.pages = Append(@, [page |-> py_str(st.page_count),
                                                   content |-> st.current_content])]
              ELSE st
        s2 == IF tables > 0 /\ s1.pages = <<>>
              THEN [s1 EXCEPT !.pages = <<[page |-> py_str(s1.page_count),
                                           content |-> DX_empty_content]>>]
              ELSE s1
    IN IF tables > 0
       THEN [s2 EXCEPT !.pages[Len(s2.pages)].content.table = Append(@, "rows")]
       ELSE s2

DX_paragraph ==
    /\ program = "docxparser" /\ node = "paragraphs"
    /\ state.i <= Len(self.paragraphs)
    /\ state' = [DX_loop_body(state, self.paragraphs[state.i]) EXCEPT !.i = state.i + 1]
    /\ UNCHANGED <<program, node, session_state, self, trace, calls>>

\* lines 61-98: after the loop; pages[0] of line 89 raises IndexError when
\* the footer has paragraphs and no page was made
DX_return ==
    /\ program = "docxparser" /\ node = "paragraphs"
    /\ state.i > Len(self.paragraphs)
    /\ LET closed == DX_close_pages(state, self.tables)
       IN IF self.footer_texts /\ closed.pages = <<>>
          THEN /\ node' = "RAISED"
               /\ state' = closed
          ELSE /\ node' = "END"
               /\ state' = IF self.footer_texts
                           THEN [closed EXCEPT !.pages[1].content.footers = Append(@, "footer")]
                           ELSE closed
    /\ UNCHANGED <<program, session_state, self, trace, calls>>

\* lines 6-21: the document opened, the locals before the loop
DX_Init ==
    /\ program = "docxparser"
    /\ node = "paragraphs"
    /\ self \in DX_Documents
    /\ state = [i |-> 1, pages |-> <<>>, page_count |-> 1, current_content |-> DX_empty_content]
    /\ session_state = NoSession
    /\ trace = <<>>
    /\ calls = <<>>

----------------------------------------------------------------------------
Init == SR_Init \/ V4_Init \/ V3_Init \/ V2_Init \/ V5_Init \/ FE_Init \/ DX_Init

Next ==
    \/ SR_evaluate
    \/ SR_decide_after_evaluation
    \/ SR_reflect
    \/ SR_decide_after_reflection
    \/ SR_reassess
    \/ SR_decide_after_reassessment
    \/ V4_parse
    \/ V4_extract
    \/ V4_identify
    \/ V4_evaluate
    \/ V4_report
    \/ V3_parse
    \/ V3_calculate
    \/ V3_evaluate
    \/ V3_report
    \/ V2_read
    \/ V2_risks
    \/ V2_controls
    \/ V2_assess
    \/ V2_gaps
    \/ V5_parse
    \/ V5_metrics
    \/ V5_assess
    \/ V5_recommend
    \/ V5_format
    \/ FE_main
    \/ DX_paragraph
    \/ DX_return

Spec == Init /\ [][Next]_vars

\* graph.invoke and workflow.invoke run the nodes in a loop until END: a node
\* that can run does run, and each completion call returns or fails
LiveSpec == Spec /\ WF_vars(Next)

----------------------------------------------------------------------------
(* Properties of the specification, by claim.                              *)

\* C1: in the self_reflection.py graph, a stage whose exception handler ran
\* is the last stage of the run to execute, and the status it leaves is
\* "error", whatever the exception's message
C1_ErrorStopsRun ==
    program = "self_reflection" =>
        \A i \in 1..Len(trace) :
            trace[i].failed => (i = Len(trace) /\ state.status = "error")

\* C2: in the eff_v4.py and effectivenessv3.py workflows, after a stage has
\* set state["error"] the only stage still to execute is
\* generate_assessment_report, and the finished run carries the error
C2_ErrorSkipsStages ==
    program \in {"eff_v4", "effectivenessv3"} =>
        /\ \A i, j \in 1..Len(trace) :
              (i < j /\ trace[i].set_error) => trace[j].stage = "generate_assessment_report"
        /\ (node = "END" /\ \E i \in 1..Len(trace) : trace[i].set_error) => HasError(state)

\* C3: in the eff_v4.py and effv2.py workflows no completion call is issued
\* by a stage that starts with state["error"] already set
C3_NoCallAfterError ==
    program \in {"eff_v4", "effv2"} =>
        \A i \in 1..Len(calls) : ~calls[i].after_error

\* C4: in the self_reflection.py graph and the eff_v4.py workflow no step
\* (stage or routing) takes error from a non-empty value to empty or None
C4_ErrorMonotonic ==
    [][LET NonEmpty(st) ==
               IF program = "self_reflection" THEN Truthy(st.error)
               ELSE IF HasError(st) THEN st["error"] \notin {PyNone, PyStr("")}
               ELSE FALSE
       IN (program \in {"self_reflection", "eff_v4"} /\ NonEmpty(state)) => NonEmpty(state')]_vars

\* a finished eff_v4.py run whose first stage set the error and whose four
\* later stages all ran with it
C4_Witness ==
    /\ program = "eff_v4" /\ node = "END"
    /\ Len(trace) = 5 /\ trace[1].set_error
    /\ HasError(state) /\ state["error"] \notin {PyNone, PyStr("")}

\* C5: in self_reflection.py no step moves status backwards along
\* initialized -> evaluated -> reflected -> completed, and no step changes
\* status once it is "error"
C5_StatusForward ==
    [][LET Rank(s) == CASE s = "initialized" -> 0 [] s = "evaluated" -> 1
                        [] s = "reflected" -> 2 [] s = "completed" -> 3
                        [] OTHER -> 4
       IN program = "self_reflection" => Rank(state.status) <= Rank(state'.status)]_vars

\* C6: a finished run of the self_reflection.py graph in which no stage
\* failed has status "completed", the three narrative fields populated and
\* final_rating in 1..5
C6_HappyPath ==
    (program = "self_reflection" /\ node = "END" /\ \A i \in 1..Len(trace) : ~trace[i].failed) =>
        /\ state.status = "completed"
        /\ state.assessment_learned # None
        /\ state.reflection # None
        /\ state.final_assessment # None
        /\ state.final_rating # None
        /\ state.final_rating[1] \in 1..5

\* C7: when the Reflect stage of self_reflection.py fails, it is the last
\* stage to run, status is "error", the slots Evaluate wrote keep their
\* values, and final_rating and final_assessment are unset
C7_ReflectFailure ==
    (program = "self_reflection" /\ Len(trace) >= 2 /\ trace[2].failed) =>
        /\ Len(trace) = 2
        /\ state.status = "error"
        /\ \A slot \in {"rating", "assessment_learned", "rationale", "metrics_evaluation"} :
              state[slot] = trace[1].post[slot]
        /\ state.final_rating = None
        /\ state.final_assessment = None

\* C8: right after a successful Evaluate stage of self_reflection.py on a
\* response with metrics M and overall_score s: status = "evaluated",
\* rating = s, metrics_evaluation maps exactly the keys of M to their scores;
\* for the five prompted metrics scored in 1..5 that is 5 keys, each in 1..5
C8_EvaluateResult ==
    (program = "self_reflection" /\ node = "decide_after_evaluation" /\ ~trace[1].failed) =>
        LET result == trace[1].result[1]
            M == result.metrics
        IN /\ state.status = "evaluated"
           /\ state.rating = Some(result.overall_score)
           /\ state.metrics_evaluation # None
           /\ DOMAIN state.metrics_evaluation[1] = DOMAIN M
           /\ \A k \in DOMAIN M : state.metrics_evaluation[1][k] = M[k].score
           /\ (DOMAIN M = MetricNames /\ \A k \in DOMAIN M : M[k].score \in 1..5) =>
                 /\ Cardinality(DOMAIN state.metrics_evaluation[1]) = 5
                 /\ \A k \in DOMAIN state.metrics_evaluation[1] :
                       state.metrics_evaluation[1][k] \in 1..5

\* Evaluate has succeeded on a fenced response grading the five metrics
\* 1, 2, 3, 4, 5 with overall_score 4
C8_Witness ==
    /\ program = "self_reflection" /\ node = "decide_after_evaluation"
    /\ ~trace[1].failed
    /\ trace[1].result[1].metrics = Graded
    /\ state.rating = Some(4)
    /\ state.metrics_evaluation[1]["sustainability"] = 5

\* C9: no stage of effv2.py, effect_v5.py or self_reflection.py lets an
\* exception leave the stage function
C9_NoStageRaises ==
    program \in {"effv2", "effect_v5", "self_reflection"} => node # "RAISED"

\* C10: in one run of the self_reflection.py graph each stage executes at
\* most once and issues at most one completion call, and a failed completion
\* call is the last call of the run
C10_NoRetries ==
    program = "self_reflection" =>
        /\ \A i, j \in 1..Len(trace) : trace[i].stage = trace[j].stage => i = j
        /\ \A i, j \in 1..Len(calls) : calls[i].stage = calls[j].stage => i = j
        /\ \A i \in 1..Len(calls) : ~calls[i].ok => i = Len(calls)

\* C11: a stage of eff_v4.py or effectivenessv3.py that finds its required
\* input slot absent sets error and leaves every other key of the state as
\* it was
C11_MissingSlotFrame ==
    program \in {"eff_v4", "effectivenessv3"} =>
        \A i \in 1..Len(trace) :
            LET e == trace[i]
                required ==
                    CASE e.stage = "parse_input_data" /\ program = "eff_v4" -> {"input_data"}
                      [] e.stage \in {"extract_test_metrics", "identify_patterns"} -> {"parsed_data"}
                      [] e.stage = "evaluate_control_effectiveness" /\ program = "eff_v4" ->
                            {"parsed_data"}
                      [] e.stage = "evaluate_control_effectiveness" /\ program # "eff_v4" ->
                            {"risks", "controls"}
                      [] e.stage = "calculate_control_metrics" -> {"controls"}
                      [] OTHER -> {}
            IN (\E k \in required : Falsy(e.pre, k)) =>
                  /\ HasError(e.post)
                  /\ Without(e.post, {"error"}) = Without(e.pre, {"error"})

\* C12: a stage that got a completion response it cannot parse as JSON
\* returns a context holding an error and the raw text of a response of the
\* stage: evaluate_control_effectiveness of eff_v4.py in
\* effectiveness_justification, extract_risks and extract_controls of
\* effv2.py in their raw slot, and the three stages of self_reflection.py in
\* some slot, so that two different raw texts give two different contexts;
\* stated for every context a stage of the run was entered with
C12_RawFallback ==
    \A i \in 1..Len(trace) :
        LET pre == trace[i].pre
            stage == trace[i].stage
        IN /\ (program = "eff_v4" /\ stage = "evaluate_control_effectiveness"
                   /\ ~Falsy(pre, "parsed_data")) =>
                 \A evaluation \in EvaluationResponses, extraction \in Responses(ExtractionResults) :
                    IF evaluation.kind = "content" /\ extraction.kind = "content"
                    THEN ~json_loads(extraction.content).ok =>
                           LET post == V4_evaluate_control_effectiveness(pre, evaluation, extraction)
                           IN /\ HasError(post)
                              /\ "effectiveness_justification" \in DOMAIN post
                              /\ post["effectiveness_justification"]
                                    \in {Text(evaluation.content), Text(extraction.content)}
                    ELSE TRUE
           /\ (program = "effv2" /\ stage \in {"extract_risks", "extract_controls"}
                   /\ ~Falsy(pre, "document_content")) =>
                 LET slot == IF stage = "extract_risks" THEN "risks" ELSE "controls"
                     raw == IF stage = "extract_risks" THEN "risk_extraction_raw"
                            ELSE "control_extraction_raw"
                 IN \A first \in EvaluationResponses, second \in Responses(V2_JsonResults(slot)) :
                       IF first.kind = "content" /\ second.kind = "content"
                       THEN ~json_loads(second.content).ok =>
                              LET post == V2_node(stage, pre, first, second)
                              IN /\ HasError(post)
                                 /\ raw \in DOMAIN post
                                 /\ post[raw] = Text(second.content)
                       ELSE TRUE
           /\ program = "self_reflection" =>
                 LET Stage(r) == CASE stage = "evaluate" -> evaluate_effectiveness(pre, r)
                                   [] stage = "reflect" -> self_reflection(pre, r)
                                   [] OTHER -> reassess(pre, r)
                     unparsed == {Content(x) :
                                    x \in {y \in NonJsonTexts : ~json_loads(json_str_of(y)).ok}}
                 IN \A r1, r2 \in unparsed :
                       /\ Stage(r1).status = "error"
                       /\ Stage(r1).error # None
                       /\ r1 # r2 => Stage(r1) # Stage(r2)

\* C13: in self_reflection.py a stage changes a derived slot only if it is
\* the slot's one writing stage: evaluate for rating, assessment_learned,
\* rationale and metrics_evaluation, reflect for reflection, reassess for
\* final_rating and final_assessment
C13_SingleWriter ==
    program = "self_reflection" =>
        \A i \in 1..Len(trace) :
            \A slot \in {"rating", "assessment_learned", "rationale", "metrics_evaluation",
                         "reflection", "final_rating", "final_assessment"} :
                trace[i].post[slot] # trace[i].pre[slot] =>
                    trace[i].stage =
                        CASE slot = "reflection" -> "reflect"
                          [] slot \in {"final_rating", "final_assessment"} -> "reassess"
                          [] OTHER -> "evaluate"

\* a completed run in which each of the three stages wrote its slots, the
\* final rating differing from the rating
C13_Witness ==
    /\ program = "self_reflection" /\ node = "END" /\ Len(trace) = 3
    /\ state.status = "completed"
    /\ trace[1].post.rating = Some(4) /\ trace[1].pre.rating = None
    /\ trace[2].post.reflection # None /\ trace[2].pre.reflection = None
    /\ trace[3].post.final_rating = Some(2) /\ trace[3].pre.final_rating = None
    /\ state.rating = Some(4)

\* C14: in effect_v5.py a stage writes a slot (adds it or changes its
\* value) only if it is the slot's one writing stage: _parse_input for
\* parsed_data, _extract_metrics for metrics, _assess_effectiveness for
\* assessment, _generate_recommendations for recommendations; no stage
\* writes the caller's input or the history
C14_V5SingleWriter ==
    program = "effect_v5" =>
        \A i \in 1..Len(trace) :
            \A slot \in DOMAIN trace[i].post :
                (IF slot \in DOMAIN trace[i].pre
                 THEN trace[i].post[slot] # trace[i].pre[slot]
                 ELSE TRUE) =>
                    trace[i].stage =
                        CASE slot = "parsed_data" -> "parse_input"
                          [] slot = "metrics" -> "extract_metrics"
                          [] slot = "assessment" -> "assess_effectiveness"
                          [] slot = "recommendations" -> "generate_recommendations"
                          [] OTHER -> "run"

\* C15: the Reflect stage of self_reflection.py, whether it succeeds or
\* fails, leaves input_text, rating, rationale, assessment_learned,
\* metrics_evaluation, final_rating and final_assessment as they were
C15_ReflectFrame ==
    program = "self_reflection" =>
        \A i \in 1..Len(trace) :
            trace[i].stage = "reflect" =>
                \A slot \in {"input_text", "rating", "rationale", "assessment_learned",
                             "metrics_evaluation", "final_rating", "final_assessment"} :
                    trace[i].post[slot] = trace[i].pre[slot]

\* Reflect has run on an evaluation rated 4 and has written its reflection
C15_Witness ==
    /\ program = "self_reflection" /\ node = "decide_after_reflection"
    /\ Last(trace).stage = "reflect" /\ ~Last(trace).failed
    /\ Last(trace).pre.rating = Some(4)
    /\ Last(trace).pre.assessment_learned = Some("adequate")
    /\ state.reflection # None /\ state.status = "reflected"

\* C16: no step of self_reflection.py or effectivenessv3.py changes state
\* outside the context: the session variables progress and status_message
\* and the agent attributes control_metrics and assessment_results stay as
\* they are
C16_NoOutsideEffect ==
    [][LET outside == <<session_state, self>>
       IN program \in {"self_reflection", "effectivenessv3"} => outside' = outside]_vars

\* C17: the report run of effectivenessv3.py returns has exactly the keys
\* effectiveness_rating, effectiveness_justification and metrics, and none
\* of the three is None or empty: a field without a produced value reads
\* "no data available"
C17_StableReport ==
    (program = "effectivenessv3" /\ node = "END") =>
        LET report == V3_run(state)
        IN /\ DOMAIN report = {"effectiveness_rating", "effectiveness_justification", "metrics"}
           /\ report.effectiveness_rating \notin {PyNone, PyStr(""), Text(<<>>)}
           /\ report.effectiveness_justification \notin {PyNone, PyStr(""), Text(<<>>)}
           /\ DOMAIN report.metrics # {}

\* C18: when a run of effectivenessv3.py ends with state["error"] set, the
\* report run returns carries that message unchanged, next to the metrics,
\* rating and justification the state holds
C18_ReportCarriesError ==
    (program = "effectivenessv3" /\ node = "END" /\ HasError(state)) =>
        LET report == V3_run(state)
        IN /\ "error" \in DOMAIN report
           /\ report["error"] = state["error"]
           /\ "metrics" \in DOMAIN report
           /\ "metrics" \in DOMAIN state => report["metrics"] = format_metrics(state["metrics"])

\* C19: generate_assessment_report of effectivenessv3.py applied a second
\* time to the context it returned yields the same report as the first
\* application, and an application leaves metrics, effectiveness_rating and
\* effectiveness_justification as they were (present or absent)
C19_ReportIdempotent ==
    program = "effectivenessv3" =>
        \A i \in 1..Len(trace) :
            trace[i].stage = "generate_assessment_report" =>
                LET pre == trace[i].pre
                    once == V3_generate_assessment_report(pre)
                    twice == V3_generate_assessment_report(once)
                    read == {"metrics", "effectiveness_rating", "effectiveness_justification"}
                    Slots(st) == [k \in (DOMAIN st) \cap read |-> st[k]]
                IN /\ trace[i].post = once
                   /\ V3_run(twice) = V3_run(once)
                   /\ Slots(once) = Slots(pre)
                   /\ Slots(twice) = Slots(pre)

\* a finished run whose report shows a zero total as "no data available"
\* while the state still holds the 0, next to a rating from the completion
C19_Witness ==
    /\ program = "effectivenessv3" /\ node = "END"
    /\ Last(trace).stage = "generate_assessment_report"
    /\ state["metrics"].nonkey_controls_total = PyInt(0)
    /\ V3_run(state).metrics.nonkey_controls_total = PyStr("no data available")
    /\ V3_run(state).metrics.key_controls_total = PyInt(1)
    /\ V3_run(state).effectiveness_rating = PyInt(3)

\* C20: in self_reflection.py a response that is a JSON value v serialised
\* inside a json code fence with text before and after, or serialised with
\* no fence at all, is parsed back to exactly v
C20_ExtractionRoundTrip ==
    program = "self_reflection" =>
        \A i \in 1..Len(trace) :
            LET e == trace[i]
                Payloads == CASE e.stage = "evaluate" -> EvaluateResults
                              [] e.stage = "reflect" -> ReflectResults
                              [] OTHER -> ReassessResults
            IN IF e.response.kind = "content"
               THEN \A v \in Payloads :
                       e.response.content \in TextsOf(v) => e.result = Some(v)
               ELSE TRUE

\* C21: in effect_v5.py, for every completion response whose text is not
\* valid JSON, _parse_input returns parsed_data = {"raw_text": text} and
\* _generate_recommendations returns the list of the text's bullet lines,
\* or the one-element list holding the text when it has none; neither
\* raises and neither puts an error key in what it returns
C21_TolerantFallback ==
    program = "effect_v5" =>
        \A i \in 1..Len(trace) :
            LET pre == trace[i].pre
                stage == trace[i].stage
                NotJson(rs) == {r \in rs : IF r.kind = "content" THEN ~json_loads(r.content).ok
                                           ELSE FALSE}
            IN /\ (stage = "parse_input" /\ V5_parse_calls(pre)) =>
                     \A r \in NotJson(V5_ParseResponses) :
                        LET out == V5_parse_input(pre, r)
                        IN /\ out.raised = None
                           /\ "error" \notin DOMAIN out.returned
                           /\ out.returned["parsed_data"] = PyDict("raw_text" :> Text(r.content))
               /\ stage = "generate_recommendations" =>
                     \A r \in NotJson(V5_RecommendationResponses) :
                        LET out == V5_generate_recommendations(pre, r)
                            bullets == SelectSeq(r.content, LAMBDA tok : tok.t = "bullet")
                        IN /\ out.raised = None
                           /\ "error" \notin DOMAIN out.returned
                           /\ IF bullets = <<>>
                              THEN out.returned["recommendations"] = PyList(<<Text(r.content)>>)
                              ELSE out.returned["recommendations"].list
                                      = [j \in 1..Len(bullets) |-> PyStr(bullets[j].v)]

\* both tolerant stages have run on prose: parsed_data holds the raw text of
\* the first response and recommendations the whole text of the second
C21_Witness ==
    /\ program = "effect_v5" /\ node = "format_output"
    /\ trace[1].stage = "parse_input" /\ trace[1].ncalls = 1
    /\ state["parsed_data"] = PyDict("raw_text" :> Text(<<Prose>>))
    /\ Last(trace).stage = "generate_recommendations"
    /\ state["recommendations"] = PyList(<<Text(<<Prose>>)>>)

\* C22: every run of the self_reflection.py graph reaches END, at no point
\* of the run have more than three stages executed, and at END status is
\* "completed" or "error"
C22_Terminates ==
    /\ [](program = "self_reflection" =>
             /\ Len(trace) <= 3
             /\ node = "END" => state.status \in {"completed", "error"})
    /\ <>(program = "self_reflection" => node = "END")

\* a run that reached END through its three stages
C22_Witness ==
    /\ program = "self_reflection" /\ node = "END"
    /\ Len(trace) = 3 /\ trace[1].stage = "evaluate" /\ trace[3].stage = "reassess"
    /\ state.status = "completed"

\* C23: in the self_reflection.py graph the stages that have executed are,
\* in order, a prefix of evaluate, reflect, reassess; each stage starts from
\* the context the stage before it returned (the first from the initial
\* one), so no stage starts before its predecessor has returned and no two
\* overlap; and a finished run in which no stage failed executed all three
C23_StageOrder ==
    program = "self_reflection" =>
        LET Order == <<"evaluate", "reflect", "reassess">>
        IN /\ Len(trace) <= 3
           /\ \A i \in 1..Len(trace) :
                 /\ trace[i].stage = Order[i]
                 /\ trace[i].pre = IF i = 1 THEN State(trace[1].pre.input_text)
                                   ELSE trace[i - 1].post
           /\ (Len(trace) > 0 => state = Last(trace).post)
           /\ (node \in {"evaluate", "reflect", "reassess"} => node = Order[Len(trace) + 1])
           /\ (node = "END" /\ \A i \in 1..Len(trace) : ~trace[i].failed) => Len(trace) = 3

\* reassess is about to start on the context reflect returned, which reflect
\* built on the one evaluate returned
C23_Witness ==
    /\ program = "self_reflection" /\ node = "reassess"
    /\ Len(trace) = 2 /\ ~trace[1].failed /\ ~trace[2].failed
    /\ trace[2].pre.status = "evaluated" /\ state.status = "reflected"

\* C24: in effect_v5.py the context a stage returns has the history it was
\* given as a prefix of its history: for every stage that has executed, on
\* the context it was entered with and on that context carrying any other
\* history, whatever the completion call returns; and the history of the run
\* starts empty
C24_HistoryAppendOnly ==
    program = "effect_v5" =>
        LET IsPrefix(p, q) == IF Len(p) <= Len(q) THEN SubSeq(q, 1, Len(p)) = p ELSE FALSE
            Histories == {<<>>, <<"parsed">>, <<"parsed", "assessed">>}
        IN /\ (trace = <<>> => state["history"] = <<>>)
           /\ \A i \in 1..Len(trace) :
                 /\ IsPrefix(trace[i].pre["history"], trace[i].post["history"])
                 /\ \A h \in Histories, r \in V5_responses(trace[i].stage) :
                       LET pre == Put(trace[i].pre, "history", h)
                           out == V5_node(trace[i].stage, pre, r)
                           post == IF out.raised = None THEN Merge(pre, out.returned) ELSE pre
                       IN IsPrefix(h, post["history"])

\* a finished run: the five stages have each returned the history they got
C24_Witness ==
    /\ program = "effect_v5" /\ node = "END" /\ Len(trace) = 5
    /\ \A i \in 1..5 : trace[i].raised = None
    /\ state["history"] = <<>>

\* C25: whenever evaluate_control_effectiveness of eff_v4.py returns without
\* having set error, state["effectiveness_rating"] is a number from 1 to 5
C25_RatingOnScale ==
    program = "eff_v4" =>
        \A i \in 1..Len(trace) :
            (trace[i].stage = "evaluate_control_effectiveness" /\ ~trace[i].set_error) =>
                /\ "effectiveness_rating" \in DOMAIN trace[i].post
                /\ trace[i].post["effectiveness_rating"] \in {PyInt(n) : n \in 1..5}

\* C26: in effectivenessv3.py the report shows a metric as "no data
\* available" in place of its value exactly when its key is one of the two
\* ending in "_total" and its value is 0, and shows every other metric with
\* the value it has; generate_assessment_report does so for the metrics of
\* the state, get_metrics_report for the metrics of the agent, and the two
\* give the same result on the same metrics
C26_FormatRule ==
    program = "effectivenessv3" =>
        LET Totals == {"key_controls_total", "nonkey_controls_total"}
            Rule(m, shown) ==
                /\ DOMAIN shown = DOMAIN m
                /\ \A key \in DOMAIN m :
                      shown[key] = IF key \in Totals /\ m[key] = PyInt(0)
                                   THEN PyStr("no data available") ELSE m[key]
        IN /\ Rule(self.control_metrics, get_metrics_report(self))
           /\ \A i \in 1..Len(trace) :
                 trace[i].stage = "generate_assessment_report" =>
                    LET m == Get(trace[i].pre, "metrics", EmptyDict)
                    IN /\ Rule(m, trace[i].post["assessment_report"].metrics)
                       /\ get_metrics_report([control_metrics |-> m]) = format_metrics(m)

\* a finished run on one key control without a test result: both reports
\* show the non-key total as missing and the counts of 0 as 0
C26_Witness ==
    /\ program = "effectivenessv3" /\ node = "END"
    /\ state["metrics"].nonkey_controls_total = PyInt(0)
    /\ state["metrics"].controls_without_results = PyInt(1)
    /\ state["assessment_report"].metrics.nonkey_controls_total = PyStr("no data available")
    /\ state["assessment_report"].metrics.key_controls_passed = PyInt(0)
    /\ get_metrics_report(self).nonkey_controls_total = PyStr("no data available")
    /\ get_metrics_report(self).key_controls_failed = PyInt(0)

\* C27: in self_reflection.py, on the context a stage has returned the
\* stage's decide_after_* function answers "error" if and only if the stage
\* left status = "error", whatever the message stored in error
C27_RoutingAgreesWithStatus ==
    program = "self_reflection" =>
        \A i \in 1..Len(trace) :
            LET post == trace[i].post
                route == CASE trace[i].stage = "evaluate" -> decide_after_evaluation(post)
                           [] trace[i].stage = "reflect" -> decide_after_reflection(post)
                           [] OTHER -> decide_after_reassessment(post)
            IN (route = "error") <=> (post.status = "error")

\* C28: in self_reflection.py, in every reachable state final_rating is set
\* only if status = "completed", reflection is set only if the Reflect stage
\* succeeded, metrics_evaluation is set only if the Evaluate stage succeeded,
\* and a stage that ended in its exception handler returned its own slots
\* as it got them
C28_AllOrNothing ==
    program = "self_reflection" =>
        LET Succeeded(stage) == \E i \in 1..Len(trace) : trace[i].stage = stage /\ ~trace[i].failed
            Slots(stage) == CASE stage = "evaluate" ->
                                   {"rating", "assessment_learned", "rationale", "metrics_evaluation"}
                              [] stage = "reflect" -> {"reflection"}
                              [] OTHER -> {"final_rating", "final_assessment"}
        IN /\ state.final_rating # None => state.status = "completed"
           /\ state.reflection # None => Succeeded("reflect")
           /\ state.metrics_evaluation # None => Succeeded("evaluate")
           /\ \A i \in 1..Len(trace) :
                 trace[i].failed =>
                    \A slot \in Slots(trace[i].stage) : trace[i].post[slot] = trace[i].pre[slot]

\* C29: in self_reflection.py, in every reachable state: status "evaluated"
\* implies rating, assessment_learned, rationale and metrics_evaluation are
\* set; "reflected" implies these and reflection are set; "completed"
\* implies these, final_rating and final_assessment are set; "initialized"
\* implies none of the seven is set
C29_StatusImpliesSlots ==
    program = "self_reflection" =>
        LET Evaluated == {"rating", "assessment_learned", "rationale", "metrics_evaluation"}
            Reflected == Evaluated \cup {"reflection"}
            Completed == Reflected \cup {"final_rating", "final_assessment"}
        IN /\ state.status = "evaluated" => \A slot \in Evaluated : state[slot] # None
           /\ state.status = "reflected" => \A slot \in Reflected : state[slot] # None
           /\ state.status = "completed" => \A slot \in Completed : state[slot] # None
           /\ state.status = "initialized" => \A slot \in Completed : state[slot] = None

\* C30: in the eff_v4.py workflow a stage entered with state["error"] set
\* returns the same message in state["error"], so that the error of the
\* final state is the message of the first stage that set one
C30_FirstErrorKept ==
    program = "eff_v4" =>
        /\ \A i \in 1..Len(trace) :
              HasError(trace[i].pre) =>
                 /\ HasError(trace[i].post)
                 /\ trace[i].post["error"] = trace[i].pre["error"]
        /\ \A i \in 1..Len(trace) :
              (trace[i].set_error /\ \A j \in 1..(i - 1) : ~trace[j].set_error) =>
                 state["error"] = trace[i].post["error"]

\* C31: after extract_test_metrics of eff_v4.py has returned without setting
\* error, the metrics it stored have passed_tests = the "Total Tests" of the
\* passed-tests summary (0 without one), failed_tests = the "Total Tests
\* Conducted" of the failed-tests summary (0 without one), and
\* total_tests = passed_tests + failed_tests
C31_TotalIsSum ==
    program = "eff_v4" =>
        \A i \in 1..Len(trace) :
            (trace[i].stage = "extract_test_metrics" /\ ~trace[i].set_error) =>
                LET parsed_data == trace[i].pre["parsed_data"].list
                    Count(summary, key) ==
                        LET found == FirstWith(parsed_data, summary)
                        IN IF found = None THEN 0
                           ELSE Get(Get(found[1], "Key Observations", EmptyDict), key, PyInt(0)).int
                    metrics == trace[i].post["metrics"]
                IN /\ metrics.passed_tests = Count("Summary for Passed Tests", "Total Tests")
                   /\ metrics.failed_tests = Count("Summary for Failed Tests", "Total Tests Conducted")
                   /\ metrics.total_tests = metrics.passed_tests + metrics.failed_tests

\* the metrics of an input with one passed and two failed tests
C31_Witness ==
    /\ program = "eff_v4" /\ node = "identify_patterns"
    /\ ~Last(trace).set_error
    /\ state["metrics"].passed_tests = 1
    /\ state["metrics"].failed_tests = 2
    /\ state["metrics"].total_tests = 3

\* C32: after calculate_control_metrics of effectivenessv3.py has run on a
\* non-empty list of controls, the state holds metrics in which
\* key_controls_total + nonkey_controls_total = the number of controls
\* = the four passed and failed counts + controls_without_results, the
\* passed counts sum to the controls whose testResult is "passed" ignoring
\* case, the failed counts to the controls with any other testResult, and
\* controls_without_results is the number of controls without one
C32_CountsPartition ==
    program = "effectivenessv3" =>
        \A i \in 1..Len(trace) :
            (trace[i].stage = "calculate_control_metrics" /\ ~Falsy(trace[i].pre, "controls")) =>
                LET controls == trace[i].pre["controls"].list
                    post == trace[i].post
                    N(k) == post["metrics"][k].int
                    With == {j \in 1..Len(controls) : "testResult" \in DOMAIN controls[j]}
                    Passed == {j \in With : controls[j]["testResult"]
                                               \in {PyStr("passed"), PyStr("Passed"), PyStr("PASSED")}}
                IN /\ "metrics" \in DOMAIN post
                   /\ N("key_controls_total") + N("nonkey_controls_total") = Len(controls)
                   /\ N("key_controls_passed") + N("key_controls_failed")
                        + N("nonkey_controls_passed") + N("nonkey_controls_failed")
                        + N("controls_without_results") = Len(controls)
                   /\ N("key_controls_passed") + N("nonkey_controls_passed") = Cardinality(Passed)
                   /\ N("key_controls_failed") + N("nonkey_controls_failed")
                        = Cardinality(With \ Passed)
                   /\ N("controls_without_results") = Len(controls) - Cardinality(With)

\* C33: when a run of effectivenessv3.py has finished, on a new agent or on
\* one that has run before, get_metrics_report returns the formatted metrics
\* that are in the "metrics" field of the report this run returned
C33_MetricsReportOfThisRun ==
    (program = "effectivenessv3" /\ node = "END") =>
        get_metrics_report(self) = V3_run(state).metrics

\* C34: in effectivenessv3.py, when evaluate_control_effectiveness is
\* entered with no risks or no controls in the state, it issues no
\* completion call and returns with error set to its own message, and the
\* report run returns has effectiveness_rating = "no data available" and
\* effectiveness_justification = "Insufficient data to evaluate
\* effectiveness"
C34_InsufficientData ==
    program = "effectivenessv3" =>
        \A i \in 1..Len(trace) :
            LET e == trace[i]
            IN (e.stage = "evaluate_control_effectiveness"
                    /\ (Falsy(e.pre, "risks") \/ Falsy(e.pre, "controls"))) =>
                  /\ e.ncalls = 0
                  /\ \A j \in 1..Len(calls) : calls[j].stage # "evaluate_control_effectiveness"
                  /\ HasError(e.post)
                  /\ e.post["error"] = PyStr("Insufficient data for effectiveness evaluation")
                  /\ node = "END" =>
                        /\ V3_run(state).effectiveness_rating = PyStr("no data available")
                        /\ V3_run(state).effectiveness_justification
                              = PyStr("Insufficient data to evaluate effectiveness")

\* a finished run on an input with one control and no risks: the metrics
\* were calculated, the evaluation was not attempted
C34_Witness ==
    /\ program = "effectivenessv3" /\ node = "END" /\ calls = <<>>
    /\ Falsy(state, "risks") /\ ~Falsy(state, "controls")
    /\ state["metrics"].key_controls_total = PyInt(1)
    /\ V3_run(state).effectiveness_rating = PyStr("no data available")
    /\ V3_run(state).effectiveness_justification = PyStr("Insufficient data to evaluate effectiveness")

\* C35: in effv2.py, when read_document has failed to read the file (it set
\* error and stored no document_content), every stage that has run after it
\* returned with error set, issued no completion call, and left risks,
\* controls and effectiveness_assessment out of the state
C35_ReadFailureStopsWork ==
    (program = "effv2" /\ Len(trace) >= 1 /\ trace[1].set_error) =>
        /\ "document_content" \notin DOMAIN trace[1].post
        /\ calls = <<>>
        /\ \A j \in 2..Len(trace) :
              /\ HasError(trace[j].post)
              /\ trace[j].ncalls = 0
              /\ \A slot \in {"risks", "controls", "effectiveness_assessment"} :
                    slot \notin DOMAIN trace[j].post
        /\ self = [risk_data |-> PyDict(EmptyDict), control_data |-> PyDict(EmptyDict),
                   effectiveness_assessment |-> PyDict(EmptyDict)]

\* the four stages after a failed read_document have all run
C35_Witness ==
    /\ program = "effv2" /\ node = "generate_recommendations"
    /\ Len(trace) = 5 /\ trace[1].stage = "read_document" /\ trace[1].set_error
    /\ Last(trace).stage = "identify_gaps"
    /\ state["error"] = PyStr("Document content not available for gap identification")

\* C36: in the Streamlit front end of self_reflection.py, the results section
\* drawn at the end of a script run that evaluated a text is drawn from the
\* result of that evaluation, or is not drawn at all
C36_ResultsOfThisEvaluation ==
    program = "self_reflection_main" =>
        \A i \in 1..Len(trace) :
            trace[i].displayed # None => trace[i].displayed[1] = trace[i].result

\* C37: in extract_docx_content_by_pages_2, at every point of the run the
\* pages emitted so far are numbered "1", "2", ... in the order they were
\* emitted, and none of them holds more than 10 body paragraphs
C37_PagesNumbered ==
    program = "docxparser" =>
        LET Numbers == <<"1", "2", "3", "4", "5", "6", "7", "8", "9", "10", "11", "12", "13",
                         "14", "15", "16", "17", "18", "19", "20", "21", "22", "23", "24">>
        IN \A k \in 1..Len(state.pages) :
              /\ state.pages[k].page = Numbers[k]
              /\ Len(state.pages[k].content.paragraph) <= 10

\* the function has returned three pages: two full ones flushed by the
\* heuristic and the rest with the table
C37_Witness ==
    /\ program = "docxparser" /\ node = "END"
    /\ Len(state.pages) = 3
    /\ Len(state.pages[1].content.paragraph) = 10
    /\ state.pages[2].page = "2" /\ state.pages[2].content.heading1 # None
    /\ state.pages[3].page = "3" /\ state.pages[3].content.table # <<>>

====
